---- MODULE Spec2Model ----
(***************************************************************************)
(* LapBook renderer: library index, reading progress, highlights and the   *)
(* open/resume session, as a state machine.  One action per event handler  *)
(* or per resumption of an async function at one of its awaits.            *)
(***************************************************************************)
EXTENDS Integers, Sequences, FiniteSets, TLC

\* ------------------------------------------------------------------ bounds
MaxTasks == 2        \* async operations in flight at once
MaxEngines == 4      \* engine instances (books, renditions, PDF viewers) ever created
MaxClock == 1        \* values Date.now() takes
MaxHighlights == 2   \* highlights in the in-memory set

\* ----------------------------------------------------------------- strings
\* A string is a sequence of one-character strings.
UpperCase == <<"A","B","C","D","E","F","G","H","I","J","K","L","M",
               "N","O","P","Q","R","S","T","U","V","W","X","Y","Z">>
LowerCase == <<"a","b","c","d","e","f","g","h","i","j","k","l","m",
               "n","o","p","q","r","s","t","u","v","w","x","y","z">>
DigitChars == <<"0","1","2","3","4","5","6","7","8","9">>

IsUpper(c) == \E i \in DOMAIN UpperCase : UpperCase[i] = c
IsAlnum(c) == \/ IsUpper(c)
              \/ \E i \in DOMAIN LowerCase : LowerCase[i] = c
              \/ \E i \in DOMAIN DigitChars : DigitChars[i] = c

ToLowerChar(c) ==
  IF IsUpper(c) THEN LowerCase[CHOOSE i \in DOMAIN UpperCase : UpperCase[i] = c] ELSE c

\* String.prototype.toLowerCase
ToLowerCase(s) == [i \in 1..Len(s) |-> ToLowerChar(s[i])]

\* s.replace(/[^a-zA-Z0-9]/g, '-'): every single non-alphanumeric character
ReplaceNonAlnum(s) == [i \in 1..Len(s) |-> IF IsAlnum(s[i]) THEN s[i] ELSE "-"]

\* Number.prototype.toString for a non-negative integer
RECURSIVE DecStr(_)
DecStr(n) == IF n < 10 THEN <<DigitChars[n + 1]>>
             ELSE DecStr(n \div 10) \o <<DigitChars[(n % 10) + 1]>>

\* a slug that keeps the case of its letters
SlugCased(title, author) == ReplaceNonAlnum(title \o <<"-">> \o author)

\* `${title}-${author}`.replace(/[^a-zA-Z0-9]/g, '-').toLowerCase()
Slug(title, author) == ToLowerCase(ReplaceNonAlnum(title \o <<"-">> \o author))

\* a || b on strings: the empty string is falsy
OrElse(a, b) == IF a # <<>> THEN a ELSE b

StrUnknown == <<"u","n","k","n","o","w","n">>
StrUnknownBook == <<"u","n","k","n","o","w","n","-","b","o","o","k","-">>
StrNull == <<"n","u","l","l">>
StrUnknownTitle == <<"U","n","k","n","o","w","n"," ","T","i","t","l","e">>
StrUnknownAuthor == <<"U","n","k","n","o","w","n"," ","A","u","t","h","o","r">>
StrUntitledPDF == <<"U","n","t","i","t","l","e","d"," ","P","D","F">>
StrUnknownCap == <<"U","n","k","n","o","w","n">>

\* index of the last "." of a path, 0 when there is none
LastDot(p) == IF \E i \in 1..Len(p) : p[i] = "."
              THEN CHOOSE i \in 1..Len(p) : p[i] = "." /\ \A j \in (i+1)..Len(p) : p[j] # "."
              ELSE 0

\* filePath.split('.').pop().toLowerCase()
Extension(p) == ToLowerCase(SubSeq(p, LastDot(p) + 1, Len(p)))

ExtPdf == <<"p","d","f">>
ExtEpub == <<"e","p","u","b">>

\* path.join(dir, `${name}.json`) names a file directly inside dir only when name
\* holds no path separator; otherwise writeFileSync fails (ENOENT) and existsSync
\* is false
IsFileName(name) == \A i \in 1..Len(name) : name[i] # "/" /\ name[i] # "\\"

\* ------------------------------------------------------ the files on disk
PathG == <<"g",".","e","p","u","b">>   \* EPUB with a URL-style publisher identifier
PathB == <<"b",".","e","p","u","b">>   \* EPUB without identifier
PathX == <<"x",".","P","D","F">>       \* PDF of two pages
PathT == <<"t",".","t","x","t">>       \* EPUB content under an unrecognized extension
PathD == <<"d",".","e","p","u","b">>   \* EPUB without identifier, two spaces in its title
PathH == <<"h",".","e","p","u","b">>   \* a copy of the EPUB at PathG
PathC == <<"c",".","e","p","u","b">>   \* a file that is no EPUB under the EPUB extension
PathP == <<"p",".","p","d","f">>       \* password-protected PDF
PathU == <<"u",".","e","p","u","b">>   \* a file that cannot be read
Paths == {PathG, PathB, PathX}
NoPath == <<>>

\* What the engines report for the document at path p.
FileOf(p) ==
  CASE p = PathG -> [readable |-> TRUE, format |-> "epub",
                     identifier |-> <<"h",":","/","1">>, title |-> <<"G">>,
                     creator |-> <<"M">>, cover |-> FALSE, pages |-> 0]
    [] p = PathB -> [readable |-> TRUE, format |-> "epub",
                     identifier |-> <<>>, title |-> <<"A"," ","b">>,
                     creator |-> <<>>, cover |-> TRUE, pages |-> 0]
    [] p = PathX -> [readable |-> TRUE, format |-> "pdf",
                     identifier |-> <<>>, title |-> <<>>,
                     creator |-> <<>>, cover |-> FALSE, pages |-> 2]
    [] p = PathD -> [readable |-> TRUE, format |-> "epub",
                     identifier |-> <<>>, title |-> <<"A"," "," ","b">>,
                     creator |-> <<>>, cover |-> FALSE, pages |-> 0]
    [] p = PathT -> [readable |-> TRUE, format |-> "epub",
                     identifier |-> <<>>, title |-> <<"T">>,
                     creator |-> <<>>, cover |-> FALSE, pages |-> 0]
    [] p = PathH -> [readable |-> TRUE, format |-> "epub",
                     identifier |-> <<"h",":","/","1">>, title |-> <<"G">>,
                     creator |-> <<"M">>, cover |-> FALSE, pages |-> 0]
    [] p = PathC -> [readable |-> TRUE, format |-> "none",
                     identifier |-> <<>>, title |-> <<>>,
                     creator |-> <<>>, cover |-> FALSE, pages |-> 0]
    [] p = PathP -> [readable |-> TRUE, format |-> "locked",
                     identifier |-> <<>>, title |-> <<>>,
                     creator |-> <<>>, cover |-> FALSE, pages |-> 0]
    [] OTHER -> [readable |-> FALSE, format |-> "none",
                 identifier |-> <<>>, title |-> <<>>, creator |-> <<>>, cover |-> FALSE,
                 pages |-> 0]

\* location.start.cfi values the EPUB engine reports, and "null" for no position
CFIs == {"cfi1", "cfi2"}
NoPos == "null"
\* the location.start values the EPUB engine reports: <<cfi, percentage in
\* thousandths>>, -1 standing for an undefined percentage
Locations == {<<"cfi1", 420>>, <<"cfi2", 425>>}
NoTime == -1

\* ---------------------------------------------------------------- settings
\* SettingsManager.defaults (lineSpacing in tenths; NoPath and NoPos for null)
Defaults == [fontSize |-> 18, fontFamily |-> "serif", lineSpacing |-> 16,
             marginSize |-> 50, theme |-> "sepia", mouseWheelNav |-> TRUE,
             pageAnimation |-> TRUE, lastBookPath |-> <<>>, lastLocation |-> "null"]

\* { ...a, ...b } with the keys of a taking precedence
SpreadFirstWins(a, b) ==
  [k \in DOMAIN a \cup DOMAIN b |-> IF k \in DOMAIN a THEN a[k] ELSE b[k]]

\* { ...a, ...b }: the keys of both, b's value where both define a key
Spread(a, b) ==
  [k \in DOMAIN a \cup DOMAIN b |-> IF k \in DOMAIN b THEN b[k] ELSE a[k]]

\* SettingsManager.set(key, value)
SettingsSet(st, key, value) ==
  [k \in DOMAIN st \cup {key} |-> IF k = key THEN value ELSE st[k]]

\* settings.json after ipcMain 'settings:save' wrote st
SettingsFile(st) == [present |-> TRUE, doc |-> st]

\* settings.json does not exist
NoSettingsFile == [present |-> FALSE]

\* ------------------------------------------------------------------- state
VARIABLES
  book,               \* handle of the ePub.js book, 0 for null
  rendition,          \* handle of the ePub.js rendition, 0 for null
  pdfViewer,          \* handle of the PDFViewer, 0 for null
  currentFileType,    \* "null", "epub" or "pdf"
  currentBookPath,    \* path of the last loadBook request, NoPath for null
  bookIdentifier,     \* identifier the highlight set is stored under
  highlights,         \* highlights of the current book
  selectedCfiRange,   \* NoPos for null
  library,            \* the index: references into heap, most recently added first
  heap,               \* the library entry objects ever created
  librarySaveTimeout, \* number of pending debounce timers
  libraryShown,       \* the library view (cards, add button) is not hidden
  backToLibraryBtn,   \* the Back button is not hidden
  engines,            \* every engine instance ever created
  tasks,              \* the async operations in flight, one record per slot
  clock,              \* Date.now()
  phase,              \* "running", "closing" (cleanup ran), "closed" (window gone)
  libraryStore,       \* library.json
  highlightStore,     \* highlights/<identifier>.json, by identifier
  coverStore,         \* covers/<id>.jpg, the ids that have one
  ipc,                \* tasks awaiting the answer of an ipcRenderer.invoke, oldest first
  editingBookId,      \* id the edit dialog is open for, <<>> for null
  settings,           \* settingsManager.settings
  settingsStore,      \* settings.json
  hist                \* history of the run, read by the properties only

vars == <<book, rendition, pdfViewer, currentFileType, currentBookPath, bookIdentifier,
          highlights, selectedCfiRange, library, heap, librarySaveTimeout, libraryShown, backToLibraryBtn,
          engines, tasks, clock, phase, libraryStore, highlightStore, coverStore, ipc, hist,
                 editingBookId, settings, settingsStore>>

Tasks == 1..MaxTasks

IdleTask == [pc |-> "idle", op |-> "none", path |-> NoPath, arg |-> FALSE,
             ftype |-> "none", entry |-> 0, h |-> 0, title |-> <<>>, author |-> <<>>,
             bookId |-> <<>>, cover |-> <<>>, hl |-> <<>>, hadEntry |-> FALSE,
             pos |-> NoPos, id |-> <<>>]

\* a new operation takes the first free slot
Free(t) == tasks[t].pc = "idle" /\ \A u \in 1..(t - 1) : tasks[u].pc # "idle"

\* the awaits of an ipcRenderer.invoke. The main process handles the requests one
\* after the other, each handler running to its end, so the answers come back in the
\* order of the requests.
IpcPcs == {"epub_read", "pdf_read", "add_read", "epub_hl", "epub_settings",
           "add_coversave", "add_save", "obl_save", "hl_save", "hd_save", "edit_save"}

\* task t may resume: an awaited answer of the main process has arrived
Replied(t) == tasks[t].pc \in IpcPcs => (ipc # <<>> /\ Head(ipc) = t)

\* the pending requests after a step of task t
IpcAfter(t) ==
  LET q == IF tasks[t].pc \in IpcPcs THEN Tail(ipc) ELSE ipc
  IN IF tasks'[t].pc \in IpcPcs THEN Append(q, t) ELSE q

\* no async operation is in flight
Quiet == \A t \in Tasks : tasks[t].pc = "idle"

\* the entries of the index, in index order
LibraryEntries == [i \in 1..Len(library) |-> heap[library[i]]]

\* library.find(b => b.path === p): the reference of the first match, 0 when none
FindByPath(lib, hp, p) ==
  IF \E i \in 1..Len(lib) : hp[lib[i]].path = p
  THEN lib[CHOOSE i \in 1..Len(lib) :
             hp[lib[i]].path = p /\ \A j \in 1..(i-1) : hp[lib[j]].path # p]
  ELSE 0

\* what window.electronAPI.saveLibrary(library) sends: a copy of the entries
Snapshot(lib, hp) == [present |-> TRUE, entries |-> [i \in 1..Len(lib) |-> hp[lib[i]]]]

\* engine.destroy(); PDFViewer.destroy also resets currentPage and totalPages
Destroy(E, h) ==
  IF h = 0 THEN E
  ELSE IF E[h].kind = "pdf"
       THEN [E EXCEPT ![h].live = FALSE, ![h].page = 1, ![h].pages = 0, ![h].asked = 0]
  ELSE [E EXCEPT ![h].live = FALSE]

\* a new engine instance. A PDFViewer starts with currentPage 1, totalPages 0, no
\* render going on (pageRendering) and none waiting (pageNumPending, 0 for null); a
\* rendition has displayed nothing yet. asked is history: the page of the viewer's
\* most recent renderPage call that got past the pdfDoc test (0 for none)
NewEngine(kind, doc, live, temp) ==
  [kind |-> kind, doc |-> doc, live |-> live, temp |-> temp,
   onRelocated |-> FALSE, onSelected |-> FALSE, orphans |-> 0,
   page |-> IF kind = "pdf" THEN 1 ELSE 0, pages |-> 0,
   rendering |-> FALSE, pending |-> 0, asked |-> 0, shown |-> "none"]

\* PDFViewer.renderPage(n) up to its first await
RenderPage(E, h, n) ==
  IF ~E[h].live THEN E
  ELSE IF E[h].rendering THEN [E EXCEPT ![h].pending = n, ![h].asked = n]
  ELSE [E EXCEPT ![h].rendering = TRUE, ![h].page = n, ![h].asked = n]

\* a goToPage that takes the last page for out of range
GoToPageExclusive(E, h, n) == IF n >= 1 /\ n < E[h].pages THEN RenderPage(E, h, n) ELSE E

\* PDFViewer.goToPage(n)
GoToPage(E, h, n) == IF n >= 1 /\ n <= E[h].pages THEN RenderPage(E, h, n) ELSE E

EmptyHist == [resolved |-> {},      \* <<metadata, identifier, time>> of each resolution
              last |-> 0,           \* entry of the last location event recorded
              loc |-> <<NoPos, 0>>, \* <<cfi, thousandths>> of that event
              evt |-> 0,            \* parity of the number of events recorded
              burstWrote |-> FALSE, \* the entry of the last event was written while
                                    \* the debounce timer of that event was pending
              timerWrites |-> 0,    \* debounce writes since the last location event
              unsaved |-> {},       \* entries whose last event no write carried yet
              pdfGot |-> {},        \* <<fileType, lastPosition>> passed to pdfViewer.goToPage
              created |-> {},       \* <<identifier, set in memory>> after each create
                                    \* or delete
              alerted |-> FALSE]    \* the catch block of openBookFromLibrary ran

\* the renderer after DOMContentLoaded, library.json holding `stored`
Started(stored) ==
  /\ book = 0 /\ rendition = 0 /\ pdfViewer = 0
  /\ currentFileType = "null"
  /\ currentBookPath = NoPath
  /\ bookIdentifier = StrNull
  /\ highlights = <<>>
  /\ selectedCfiRange = NoPos
  /\ heap = stored.entries
  /\ library = [i \in 1..Len(stored.entries) |-> i]
  /\ librarySaveTimeout = 0
  /\ libraryShown = TRUE
  /\ backToLibraryBtn = FALSE
  /\ engines = <<>>
  /\ tasks = [t \in Tasks |-> IdleTask]
  /\ clock = 0
  /\ phase = "running"
  /\ libraryStore = stored
  /\ highlightStore = [x \in {} |-> <<>>]
  /\ coverStore = {stored.entries[i].coverPath : i \in 1..Len(stored.entries)} \ {<<>>}
  /\ ipc = <<>>
  /\ editingBookId = <<>>
  /\ settings = Defaults
  /\ settingsStore = NoSettingsFile
  /\ hist = EmptyHist

\* first start: no library.json yet
Init == Started([present |-> FALSE, entries |-> <<>>])

\* ------------------------------------------------- openBookFromLibrary, resume
\* page numbers a stored lastPosition can spell
PageStrings == <<"1", "2", "3">>

\* parseInt(lastPosition); 0 stands for NaN as well (both fail pageNum > 0)
ParseInt(v) == IF \E i \in DOMAIN PageStrings : PageStrings[i] = v
               THEN CHOOSE i \in DOMAIN PageStrings : PageStrings[i] = v
               ELSE IF v = "-1" THEN -1
               ELSE 0

\* The caller's continuation once `await loadBook(path)` returns to task record tk,
\* with rend and pdfv the session's rendition and pdfViewer at that moment: the
\* resume of openBookFromLibrary, nothing for the other callers.
Resume(tk, rend, pdfv, hp) ==
  IF tk.op = "library" /\ tk.entry # 0
  THEN LET e == hp[tk.entry] IN
       IF e.lastPosition # NoPos /\ e.fileType = "epub" /\ rend # 0
         THEN [IdleTask EXCEPT !.pc = "resume_epub", !.op = "library", !.h = rend,
                               !.pos = e.lastPosition]
       ELSE IF e.lastPosition # NoPos /\ e.fileType = "pdf" /\ pdfv # 0
                 /\ ParseInt(e.lastPosition) > 0
         THEN [IdleTask EXCEPT !.pc = "resume_pdf", !.op = "library", !.h = pdfv,
                               !.pos = e.lastPosition]
       ELSE IdleTask
  ELSE IdleTask

\* history: what Resume hands to pdfViewer.goToPage
ResumeHist(h, tk, rend, pdfv, hp) ==
  IF Resume(tk, rend, pdfv, hp).pc = "resume_pdf"
  THEN [h EXCEPT !.pdfGot = @ \cup {<<hp[tk.entry].fileType, hp[tk.entry].lastPosition>>}]
  ELSE h

\* the engines after Resume: pdfViewer.goToPage(pageNum) has run up to its await
ResumeEngines(E, tk, rend, pdfv, hp) ==
  IF Resume(tk, rend, pdfv, hp).pc = "resume_pdf"
  THEN GoToPage(E, pdfv, ParseInt(hp[tk.entry].lastPosition))
  ELSE E

\* --------------------------------------------------------- loadBook, start
\* loadEPUB up to its first await (readEpubFile)
LoadEPUBStart(t, tk, p) ==
  /\ libraryShown' = FALSE
  /\ backToLibraryBtn' = TRUE
  /\ engines' = Destroy(Destroy(Destroy(engines, pdfViewer), rendition), book)
  /\ pdfViewer' = 0
  /\ currentFileType' = "epub"
  /\ rendition' = 0
  /\ book' = 0
  /\ tasks' = [tasks EXCEPT ![t] = [IdleTask EXCEPT !.pc = "epub_read", !.path = p,
                   !.op = tk.op, !.entry = tk.entry, !.arg = tk.arg,
                   !.hadEntry = tk.hadEntry]]
  /\ hist' = hist

\* loadPDF up to its first await (readEpubFile); the PDF libraries are loaded
LoadPDFStart(t, tk, p) ==
  /\ Len(engines) < MaxEngines
  /\ libraryShown' = FALSE
  /\ backToLibraryBtn' = TRUE
  /\ engines' = Append(Destroy(Destroy(engines, rendition), pdfViewer),
                       NewEngine("pdf", NoPath, FALSE, FALSE))
  /\ rendition' = 0
  /\ pdfViewer' = Len(engines) + 1
  /\ currentFileType' = "pdf"
  /\ book' = book
  /\ tasks' = [tasks EXCEPT ![t] = [IdleTask EXCEPT !.pc = "pdf_read", !.path = p,
                   !.op = tk.op, !.entry = tk.entry, !.arg = tk.arg,
                   !.hadEntry = tk.hadEntry]]
  /\ hist' = hist

\* loadBook(filePath) up to the first await of the loader it picks
LoadBook(t, tk, p) ==
  /\ currentBookPath' = p
  /\ IF Extension(p) = ExtPdf THEN LoadPDFStart(t, tk, p)
     ELSE IF Extension(p) = ExtEpub THEN LoadEPUBStart(t, tk, p)
     ELSE /\ tasks' = [tasks EXCEPT ![t] = Resume(tk, rendition, pdfViewer, heap)]
          /\ hist' = ResumeHist(hist, tk, rendition, pdfViewer, heap)
          /\ engines' = ResumeEngines(engines, tk, rendition, pdfViewer, heap)
          /\ UNCHANGED <<libraryShown, backToLibraryBtn, pdfViewer, currentFileType,
                         rendition, book>>

\* the variables no step of loadBook, loadEPUB or loadPDF writes
NotLoadVars == <<bookIdentifier, highlights, selectedCfiRange, library, heap,
                 librarySaveTimeout, clock, phase, libraryStore, highlightStore,
                 coverStore>>

\* the menu's File > Open (onOpenEpub) and openFileDialog: loadBook(filePath)
OpenFile(t, p) ==
  /\ phase = "running"
  /\ Free(t)
  /\ LoadBook(t, [IdleTask EXCEPT !.op = "menu"], p)
  /\ UNCHANGED NotLoadVars
  /\ ipc' = IpcAfter(t)
  /\ UNCHANGED <<editingBookId, settings, settingsStore>>

\* ------------------------------------------------------------------ loadEPUB
\* the catch block of loadEPUB: alert, destroy rendition and book; loadBook then
\* returns normally to its caller
EpubCatch(t) ==
  /\ engines' = ResumeEngines(Destroy(Destroy(engines, rendition), book),
                              tasks[t], 0, pdfViewer, heap)
  /\ rendition' = 0
  /\ book' = 0
  /\ tasks' = [tasks EXCEPT ![t] = Resume(tasks[t], 0, pdfViewer, heap)]
  /\ hist' = ResumeHist(hist, tasks[t], 0, pdfViewer, heap)
  /\ UNCHANGED <<bookIdentifier, highlights>>

\* readEpubFile returned: book = ePub(arrayBuffer); await book.ready
EpubRead(t) ==
  /\ phase # "closed"
  /\ tasks[t].pc = "epub_read"
  /\ Replied(t)
  /\ IF ~FileOf(tasks[t].path).readable
     THEN EpubCatch(t)
     ELSE /\ Len(engines) < MaxEngines
          /\ engines' = Append(engines, NewEngine("book", tasks[t].path, TRUE, FALSE))
          /\ book' = Len(engines) + 1
          /\ tasks' = [tasks EXCEPT ![t].pc = "epub_ready", ![t].h = Len(engines) + 1]
          /\ UNCHANGED <<rendition, hist, bookIdentifier, highlights>>
  /\ UNCHANGED <<pdfViewer, currentFileType, currentBookPath, selectedCfiRange, library,
                 heap, librarySaveTimeout, libraryShown, backToLibraryBtn, clock, phase, libraryStore,
                 highlightStore, coverStore>>
  /\ ipc' = IpcAfter(t)
  /\ UNCHANGED <<editingBookId, settings, settingsStore>>

\* book.ready settled: rendition = book.renderTo('viewer', ...), showEPUBViewer, then
\* the 100 ms pause
EpubReady(t) ==
  /\ phase # "closed"
  /\ tasks[t].pc = "epub_ready"
  /\ Replied(t)
  /\ IF FileOf(tasks[t].path).format # "epub" \/ book = 0
     THEN EpubCatch(t) /\ UNCHANGED backToLibraryBtn
     ELSE /\ Len(engines) < MaxEngines
          /\ engines' = Append(engines, NewEngine("rendition", engines[book].doc, TRUE, FALSE))
          /\ rendition' = Len(engines) + 1
          /\ tasks' = [tasks EXCEPT ![t].pc = "epub_pause"]
          /\ backToLibraryBtn' = TRUE
          /\ UNCHANGED <<book, hist, bookIdentifier, highlights>>
  /\ UNCHANGED <<pdfViewer, currentFileType, currentBookPath, selectedCfiRange, library,
                 heap, librarySaveTimeout, libraryShown, clock, phase, libraryStore,
                 highlightStore, coverStore>>
  /\ ipc' = IpcAfter(t)
  /\ UNCHANGED <<editingBookId, settings, settingsStore>>

\* ipcMain 'highlights:load': the stored array, [] when the file does not exist
LoadHighlightsFile(store, id) ==
  IF IsFileName(id) /\ id \in DOMAIN store THEN store[id] ELSE <<>>

\* ipcMain 'highlights:save': writeFileSync, its failure swallowed
SaveHighlightsFile(store, id, hs) ==
  IF IsFileName(id)
  THEN [x \in DOMAIN store \cup {id} |-> IF x = id THEN hs ELSE store[x]]
  ELSE store

\* metadata of the document an ePub.js book was made from
MetadataOf(doc) == [identifier |-> FileOf(doc).identifier, title |-> FileOf(doc).title,
                    creator |-> FileOf(doc).creator]

\* generateBookIdentifier with the timestamp suffix addBookToLibrary gives its ids
GenerateBookIdentifierStamped(meta, now) ==
  IF meta.identifier # <<>> THEN meta.identifier
  ELSE Slug(OrElse(meta.title, StrUnknown), OrElse(meta.creator, StrUnknown))
         \o <<"-">> \o DecStr(now)

\* generateBookIdentifier once book.loaded.metadata resolved to meta (now: Date.now(),
\* which the function reads in its catch block only)
GenerateBookIdentifier(meta, now) ==
  IF meta.identifier # <<>> THEN meta.identifier
  ELSE Slug(OrElse(meta.title, StrUnknown), OrElse(meta.creator, StrUnknown))

\* the 100 ms passed: rendition.display() is called and awaited (with no rendition
\* the call throws, no iframe is found, and loadEPUB goes to its catch block)
EpubPause(t) ==
  /\ phase # "closed"
  /\ tasks[t].pc = "epub_pause"
  /\ Replied(t)
  /\ IF rendition = 0
     THEN EpubCatch(t)
     ELSE /\ tasks' = [tasks EXCEPT ![t].pc = "epub_display", ![t].h = rendition]
          /\ UNCHANGED <<engines, rendition, book, hist, bookIdentifier, highlights>>
  /\ UNCHANGED <<pdfViewer, currentFileType, currentBookPath, selectedCfiRange, library,
                 heap, librarySaveTimeout, libraryShown, backToLibraryBtn, clock, phase,
                 libraryStore, highlightStore, coverStore>>
  /\ ipc' = IpcAfter(t)
  /\ UNCHANGED <<editingBookId, settings, settingsStore>>

\* rendition.display(target) settled on rendition h: without target the document
\* start is shown; nothing changes on a rendition destroyed meanwhile
Displayed(E, h, target) ==
  IF E[h].live THEN [E EXCEPT ![h].shown = target] ELSE E

\* display and table of contents done: generateBookIdentifier() up to its await, or,
\* when it throws at once (book is null), through its catch to loadHighlights()
EpubDisplay(t) ==
  /\ phase # "closed"
  /\ tasks[t].pc = "epub_display"
  /\ Replied(t)
  /\ engines' = Displayed(engines, tasks[t].h, "start")
  /\ IF book = 0
     THEN /\ bookIdentifier' = StrUnknownBook \o DecStr(clock)
          /\ tasks' = [tasks EXCEPT ![t].pc = "epub_hl",
                         ![t].hl = LoadHighlightsFile(highlightStore, bookIdentifier')]
          /\ UNCHANGED <<rendition, book, hist, highlights>>
     ELSE /\ tasks' = [tasks EXCEPT ![t].pc = "epub_ident", ![t].h = book]
          /\ UNCHANGED <<rendition, book, hist, bookIdentifier, highlights>>
  /\ UNCHANGED <<pdfViewer, currentFileType, currentBookPath, selectedCfiRange, library,
                 heap, librarySaveTimeout, libraryShown, backToLibraryBtn, clock, phase, libraryStore,
                 highlightStore, coverStore>>
  /\ ipc' = IpcAfter(t)
  /\ UNCHANGED <<editingBookId, settings, settingsStore>>

\* book.loaded.metadata settled: bookIdentifier is set, loadHighlights() sends its
\* request (the main process answers requests in the order they were sent)
EpubIdent(t) ==
  /\ phase # "closed"
  /\ tasks[t].pc = "epub_ident"
  /\ Replied(t)
  /\ LET doc == engines[tasks[t].h].doc
         ok == FileOf(doc).format = "epub"
         id == IF ok THEN GenerateBookIdentifier(MetadataOf(doc), clock)
               ELSE StrUnknownBook \o DecStr(clock)
     IN /\ bookIdentifier' = id
        /\ hist' = IF ok THEN [hist EXCEPT !.resolved = @ \cup {<<MetadataOf(doc), id, clock>>}]
                   ELSE hist
        /\ tasks' = [tasks EXCEPT ![t].pc = "epub_hl", ![t].h = 0,
                       ![t].hl = LoadHighlightsFile(highlightStore, id)]
  /\ UNCHANGED <<book, rendition, pdfViewer, currentFileType, currentBookPath, highlights,
                 selectedCfiRange, library, heap, librarySaveTimeout, libraryShown, backToLibraryBtn, engines,
                 clock, phase, libraryStore, highlightStore, coverStore>>
  /\ ipc' = IpcAfter(t)
  /\ UNCHANGED <<editingBookId, settings, settingsStore>>

\* loadHighlights got its answer: highlights is replaced, rendition.on('selected'),
\* settingsManager.save()
EpubHl(t) ==
  /\ phase # "closed"
  /\ tasks[t].pc = "epub_hl"
  /\ Replied(t)
  /\ highlights' = tasks[t].hl
  /\ IF rendition = 0
     THEN /\ engines' = ResumeEngines(Destroy(engines, book), tasks[t], 0, pdfViewer, heap)
          /\ rendition' = 0
          /\ book' = 0
          /\ tasks' = [tasks EXCEPT ![t] = Resume(tasks[t], 0, pdfViewer, heap)]
          /\ hist' = ResumeHist(hist, tasks[t], 0, pdfViewer, heap)
     ELSE /\ engines' = [engines EXCEPT ![rendition].onSelected = TRUE]
          /\ tasks' = [tasks EXCEPT ![t].pc = "epub_settings", ![t].hl = <<>>]
          /\ UNCHANGED <<rendition, book, hist>>
  /\ settings' = IF rendition = 0 THEN settings
                 ELSE SettingsSet(settings, "lastBookPath", tasks[t].path)
  /\ settingsStore' = IF rendition = 0 THEN settingsStore ELSE SettingsFile(settings')
  /\ UNCHANGED <<pdfViewer, currentFileType, currentBookPath, bookIdentifier,
                 selectedCfiRange, library, heap, librarySaveTimeout, libraryShown, backToLibraryBtn, clock,
                 phase, libraryStore, highlightStore, coverStore>>
  /\ ipc' = IpcAfter(t)
  /\ UNCHANGED editingBookId

\* settings saved: rendition.on('relocated', onLocationChange); loadEPUB returns
EpubSettings(t) ==
  /\ phase # "closed"
  /\ tasks[t].pc = "epub_settings"
  /\ Replied(t)
  /\ IF rendition = 0
     THEN EpubCatch(t)
     ELSE /\ engines' = ResumeEngines([engines EXCEPT ![rendition].onRelocated = TRUE],
                                      tasks[t], rendition, pdfViewer, heap)
          /\ tasks' = [tasks EXCEPT ![t] = Resume(tasks[t], rendition, pdfViewer, heap)]
          /\ hist' = ResumeHist(hist, tasks[t], rendition, pdfViewer, heap)
          /\ UNCHANGED <<rendition, book, bookIdentifier, highlights>>
  /\ UNCHANGED <<pdfViewer, currentFileType, currentBookPath, selectedCfiRange, library,
                 heap, librarySaveTimeout, libraryShown, backToLibraryBtn, clock, phase, libraryStore,
                 highlightStore, coverStore>>
  /\ ipc' = IpcAfter(t)
  /\ UNCHANGED <<editingBookId, settings, settingsStore>>

\* ------------------------------------------------------- addBookToLibrary
\* an existence check that looks at the newest entry only
ExistingBookHead(lib, hp, p) ==
  IF Len(lib) > 0 /\ hp[lib[1]].path = p THEN lib[1] ELSE 0

\* library.find(b => b.path === filePath) of addBookToLibrary
ExistingBook(lib, hp, p) == FindByPath(lib, hp, p)

\* history: a library write of index lib goes out
LibWrote(h, lib) ==
  LET written == {lib[i] : i \in 1..Len(lib)}
  IN [h EXCEPT !.burstWrote = (librarySaveTimeout > 0 /\ h.last \in written) \/ @,
               !.unsaved = @ \ written]

\* addBookToLibrary from its entry to its first await, for the call described by tk
\* (tk.arg: filePathArg was given, i.e. the call comes from loadPDF; back: whether the
\* Back button is visible when the call is made)
AddCheck(t, tk, p, back) ==
  LET had == \E i \in 1..Len(library) : heap[library[i]].path = p
      tk1 == [tk EXCEPT !.path = p, !.hadEntry = had, !.h = 0]
  IN IF ExistingBook(library, heap, p) # 0
     THEN IF ~tk.arg
          THEN LoadBook(t, [tk1 EXCEPT !.arg = TRUE], p)
          ELSE /\ tasks' = [tasks EXCEPT ![t] = Resume(tk1, rendition, pdfViewer, heap)]
               /\ hist' = ResumeHist(hist, tk1, rendition, pdfViewer, heap)
               /\ engines' = ResumeEngines(engines, tk1, rendition, pdfViewer, heap)
               /\ backToLibraryBtn' = back
               /\ UNCHANGED <<currentBookPath, libraryShown, pdfViewer,
                              currentFileType, rendition, book>>
     ELSE /\ tasks' = [tasks EXCEPT ![t] = [tk1 EXCEPT !.pc = "add_read"]]
          /\ backToLibraryBtn' = back
          /\ UNCHANGED <<hist, currentBookPath, libraryShown, engines, pdfViewer,
                         currentFileType, rendition, book>>

\* the "+ Add Book" button: the dialog returned path p
AddBook(t, p) ==
  /\ phase = "running"
  /\ libraryShown
  /\ Free(t)
  /\ AddCheck(t, [IdleTask EXCEPT !.op = "add",
                    !.ftype = IF Extension(p) = ExtPdf THEN "pdf" ELSE "epub"], p,
              backToLibraryBtn)
  /\ UNCHANGED NotLoadVars
  /\ ipc' = IpcAfter(t)
  /\ UNCHANGED <<editingBookId, settings, settingsStore>>

\* addBookToLibrary returns to its caller, normally or through its catch block (alert)
AddReturn(t) ==
  /\ engines' = ResumeEngines(engines, tasks[t], rendition, pdfViewer, heap)
  /\ tasks' = [tasks EXCEPT ![t] = Resume(tasks[t], rendition, pdfViewer, heap)]
  /\ hist' = ResumeHist(hist, tasks[t], rendition, pdfViewer, heap)

\* readEpubFile returned: the temporary engine is created and starts parsing
AddRead(t) ==
  /\ phase # "closed"
  /\ tasks[t].pc = "add_read"
  /\ Replied(t)
  /\ IF ~FileOf(tasks[t].path).readable
     THEN AddReturn(t)
     ELSE /\ Len(engines) < MaxEngines
          /\ engines' = Append(engines,
                          IF tasks[t].ftype = "pdf" THEN NewEngine("pdf", NoPath, FALSE, TRUE)
                          ELSE NewEngine("book", tasks[t].path, TRUE, TRUE))
          /\ tasks' = [tasks EXCEPT ![t].pc = "add_load", ![t].h = Len(engines) + 1]
          /\ hist' = hist
  /\ UNCHANGED <<book, rendition, pdfViewer, currentFileType, currentBookPath,
                 bookIdentifier, highlights, selectedCfiRange, library, heap,
                 librarySaveTimeout, libraryShown, backToLibraryBtn, clock, phase, libraryStore,
                 highlightStore, coverStore>>
  /\ ipc' = IpcAfter(t)
  /\ UNCHANGED <<editingBookId, settings, settingsStore>>

\* the entry addBookToLibrary creates from its locals
LibraryEntry(tk, coverPath, now) ==
  [id |-> tk.bookId, path |-> tk.path, title |-> tk.title, author |-> tk.author,
   fileType |-> tk.ftype, coverPath |-> coverPath, addedDate |-> now,
   lastOpened |-> NoTime, lastPosition |-> NoPos, progress |-> 0]

\* an insert at the end of the index
InsertAtEnd(t, tk, coverPath) ==
  /\ heap' = Append(heap, LibraryEntry(tk, coverPath, clock))
  /\ library' = library \o <<Len(heap) + 1>>
  /\ libraryStore' = Snapshot(library', heap')
  /\ hist' = LibWrote(hist, library')
  /\ tasks' = [tasks EXCEPT ![t] = [tk EXCEPT !.pc = "add_save", !.h = 0]]

\* library.unshift(libraryEntry); await saveLibrary()
Insert(t, tk, coverPath) ==
  /\ heap' = Append(heap, LibraryEntry(tk, coverPath, clock))
  /\ library' = <<Len(heap) + 1>> \o library
  /\ libraryStore' = Snapshot(library', heap')
  /\ hist' = LibWrote(hist, library')
  /\ tasks' = [tasks EXCEPT ![t] = [tk EXCEPT !.pc = "add_save", !.h = 0]]

\* title, author and id as addBookToLibrary computes them from its arguments (tk.title,
\* tk.author) and the parsed metadata: a PDF id is slug-timestamp, an EPUB id the
\* publisher identifier or else slug-timestamp
AddMetadata(tk, now) ==
  LET f == FileOf(tk.path)
      title == OrElse(tk.title, OrElse(f.title,
                 IF tk.ftype = "pdf" THEN StrUntitledPDF ELSE StrUnknownTitle))
      author == OrElse(tk.author, OrElse(f.creator,
                  IF tk.ftype = "pdf" THEN StrUnknownCap ELSE StrUnknownAuthor))
      stamped == Slug(title, author) \o <<"-">> \o DecStr(now)
  IN [tk EXCEPT !.title = title, !.author = author,
                !.bookId = IF tk.ftype = "epub" /\ f.identifier # <<>>
                           THEN f.identifier ELSE stamped]

\* the temporary engine finished parsing (a file of the other format makes it throw):
\* a PDF goes straight to the insert, an EPUB first extracts its cover
AddLoad(t) ==
  /\ phase # "closed"
  /\ tasks[t].pc = "add_load"
  /\ Replied(t)
  /\ LET tk == tasks[t]
         tk1 == AddMetadata(tk, clock)
     IN IF FileOf(tk.path).format # tk.ftype
        THEN AddReturn(t) /\ UNCHANGED <<heap, library, libraryStore>>
        ELSE IF tk.ftype = "pdf"
        THEN /\ engines' = [engines EXCEPT ![tk.h].doc = tk.path]
             /\ Insert(t, tk1, <<>>)
        ELSE /\ tasks' = [tasks EXCEPT ![t] = [tk1 EXCEPT !.pc = "add_cover"]]
             /\ UNCHANGED <<engines, heap, library, libraryStore, hist>>
  /\ UNCHANGED <<book, rendition, pdfViewer, currentFileType, currentBookPath,
                 bookIdentifier, highlights, selectedCfiRange, librarySaveTimeout,
                 libraryShown, backToLibraryBtn, clock, phase, highlightStore, coverStore>>
  /\ ipc' = IpcAfter(t)
  /\ UNCHANGED <<editingBookId, settings, settingsStore>>

\* saveCover succeeds when the book has a cover image and covers/<id>.jpg is a file name
CoverSaved(tk) == FileOf(tk.path).cover /\ IsFileName(tk.bookId)

\* the cover was looked for. With cover data saveCover is sent (covers/<id>.jpg is
\* written, the answer is its path, null on failure); without, tempBook.destroy(),
\* the entry is inserted and the index saved
AddCover(t) ==
  /\ phase # "closed"
  /\ tasks[t].pc = "add_cover"
  /\ Replied(t)
  /\ LET tk == tasks[t] IN
     IF FileOf(tk.path).cover
     THEN /\ coverStore' = IF CoverSaved(tk) THEN coverStore \cup {tk.bookId} ELSE coverStore
          /\ tasks' = [tasks EXCEPT ![t].pc = "add_coversave",
                         ![t].cover = IF CoverSaved(tk) THEN tk.bookId ELSE <<>>]
          /\ UNCHANGED <<engines, heap, library, libraryStore, hist>>
     ELSE /\ engines' = Destroy(engines, tk.h)
          /\ Insert(t, tk, <<>>)
          /\ UNCHANGED coverStore
  /\ UNCHANGED <<book, rendition, pdfViewer, currentFileType, currentBookPath,
                 bookIdentifier, highlights, selectedCfiRange, librarySaveTimeout,
                 libraryShown, backToLibraryBtn, clock, phase, highlightStore>>
  /\ ipc' = IpcAfter(t)
  /\ UNCHANGED <<editingBookId, settings, settingsStore>>

\* saveCover answered: tempBook.destroy(), the entry is inserted and the index saved
AddCoverSaved(t) ==
  /\ phase # "closed"
  /\ tasks[t].pc = "add_coversave"
  /\ Replied(t)
  /\ engines' = Destroy(engines, tasks[t].h)
  /\ Insert(t, tasks[t], tasks[t].cover)
  /\ UNCHANGED <<book, rendition, pdfViewer, currentFileType, currentBookPath,
                 bookIdentifier, highlights, selectedCfiRange, librarySaveTimeout,
                 libraryShown, backToLibraryBtn, clock, phase, highlightStore, coverStore>>
  /\ ipc' = IpcAfter(t)
  /\ UNCHANGED <<editingBookId, settings, settingsStore>>

\* saveLibrary answered: renderLibrary; the button's call goes on to loadBook, the
\* call from loadPDF returns
AddSave(t) ==
  /\ phase # "closed"
  /\ tasks[t].pc = "add_save"
  /\ Replied(t)
  /\ IF ~tasks[t].arg
     THEN LoadBook(t, [tasks[t] EXCEPT !.arg = TRUE], tasks[t].path)
     ELSE /\ AddReturn(t)
          /\ UNCHANGED <<currentBookPath, libraryShown, backToLibraryBtn, pdfViewer,
                         currentFileType, rendition, book>>
  /\ UNCHANGED NotLoadVars
  /\ ipc' = IpcAfter(t)
  /\ UNCHANGED <<editingBookId, settings, settingsStore>>

\* -------------------------------------------------------------------- loadPDF
\* the catch block of loadPDF: alert, destroy pdfViewer, rethrow; loadBook catches,
\* alerts and returns normally to its caller
PdfCatch(t, E) ==
  /\ engines' = ResumeEngines(Destroy(E, pdfViewer), tasks[t], rendition, 0, heap)
  /\ pdfViewer' = 0
  /\ tasks' = [tasks EXCEPT ![t] = Resume(tasks[t], rendition, 0, heap)]
  /\ hist' = ResumeHist(hist, tasks[t], rendition, 0, heap)
  /\ UNCHANGED currentBookPath

\* readEpubFile returned: await pdfViewer.loadPDF(arrayBuffer)
PdfRead(t) ==
  /\ phase # "closed"
  /\ tasks[t].pc = "pdf_read"
  /\ Replied(t)
  /\ IF ~FileOf(tasks[t].path).readable \/ pdfViewer = 0
     THEN PdfCatch(t, engines)
     ELSE /\ tasks' = [tasks EXCEPT ![t].pc = "pdf_load", ![t].h = pdfViewer]
          /\ UNCHANGED <<engines, pdfViewer, hist, currentBookPath>>
  /\ UNCHANGED <<book, rendition, currentFileType, libraryShown, backToLibraryBtn>>
  /\ UNCHANGED NotLoadVars
  /\ ipc' = IpcAfter(t)
  /\ UNCHANGED <<editingBookId, settings, settingsStore>>

\* PDFViewer.loadPDF on viewer h for the document at path p: pdfDoc is replaced
\* (a document it already held is dropped, not destroyed), currentPage = 1 and
\* await this.renderPage(1): parked when a render of the viewer is going on, else
\* rendered before loadPDF returns (a failure of it is caught inside renderPage)
ViewerLoaded(E, h, p) ==
  [E EXCEPT ![h].doc = p, ![h].live = TRUE,
            ![h].orphans = IF E[h].live THEN @ + 1 ELSE @,
            ![h].pages = FileOf(p).pages, ![h].page = 1,
            ![h].pending = IF E[h].rendering THEN 1 ELSE @,
            ![h].asked = 1]

\* PDFViewer.getMetadata: null while the viewer holds no document
ViewerHasMetadata(E, h) == E[h].live

\* loadPDF of the viewer settled: metadata = pdfViewer ? await pdfViewer.getMetadata()
\* : {title: null, author: null}; without a viewer the code runs on through
\* showPDFViewer() to pdfViewer.getOutline() and throws
PdfLoad(t) ==
  /\ phase # "closed"
  /\ tasks[t].pc = "pdf_load"
  /\ Replied(t)
  /\ LET tk == tasks[t] IN
     IF FileOf(tk.path).format # "pdf"
     THEN PdfCatch(t, engines) /\ UNCHANGED backToLibraryBtn
     ELSE LET E == ViewerLoaded(engines, tk.h, tk.path) IN
          IF pdfViewer = 0
          THEN PdfCatch(t, E) /\ backToLibraryBtn' = TRUE
          ELSE /\ engines' = E
               /\ UNCHANGED backToLibraryBtn
               /\ tasks' = [tasks EXCEPT ![t].pc = "pdf_meta",
                              ![t].h = IF ViewerHasMetadata(E, pdfViewer) THEN pdfViewer ELSE 0,
                              ![t].title = IF ViewerHasMetadata(E, pdfViewer)
                                           THEN OrElse(FileOf(E[pdfViewer].doc).title, StrUntitledPDF)
                                           ELSE <<>>,
                              ![t].author = IF ViewerHasMetadata(E, pdfViewer)
                                            THEN OrElse(FileOf(E[pdfViewer].doc).creator, StrUnknownCap)
                                            ELSE <<>>]
               /\ UNCHANGED <<pdfViewer, hist, currentBookPath>>
  /\ UNCHANGED <<book, rendition, currentFileType, libraryShown>>
  /\ UNCHANGED NotLoadVars
  /\ ipc' = IpcAfter(t)
  /\ UNCHANGED <<editingBookId, settings, settingsStore>>

\* metadata and outline arrived: showPDFViewer (before anything can throw), then
\* addBookToLibrary(filePath, metadata.title || 'Untitled PDF', metadata.author ||
\* 'Unknown', 'pdf') up to its first await
PdfMeta(t) ==
  /\ phase # "closed"
  /\ tasks[t].pc = "pdf_meta"
  /\ Replied(t)
  /\ IF tasks[t].h = 0 \/ pdfViewer = 0
     THEN /\ PdfCatch(t, engines)
          /\ backToLibraryBtn' = TRUE
          /\ UNCHANGED <<libraryShown, currentFileType, rendition, book>>
     ELSE AddCheck(t, [tasks[t] EXCEPT !.arg = TRUE, !.ftype = "pdf",
                         !.title = OrElse(tasks[t].title, StrUntitledPDF),
                         !.author = OrElse(tasks[t].author, StrUnknownCap)],
                   tasks[t].path, TRUE)
  /\ UNCHANGED NotLoadVars
  /\ ipc' = IpcAfter(t)
  /\ UNCHANGED <<editingBookId, settings, settingsStore>>

\* ------------------------------------------------ library cards, back, close
\* saveLibrary(): what library.json holds after the write
SaveLibrary(lib, hp) == Snapshot(lib, hp)

\* the card's Open button: openBookFromLibrary(book.path) up to `await saveLibrary()`
OpenBookFromLibrary(t, i) ==
  /\ phase = "running"
  /\ libraryShown
  /\ Free(t)
  /\ i \in 1..Len(library)
  /\ LET p == heap[library[i]].path
         b == FindByPath(library, heap, p)
     IN /\ heap' = [heap EXCEPT ![b].lastOpened = clock]
        /\ libraryStore' = SaveLibrary(library, heap')
        /\ hist' = LibWrote(hist, library)
        /\ tasks' = [tasks EXCEPT ![t] = [IdleTask EXCEPT !.pc = "obl_save",
                       !.op = "library", !.path = p, !.entry = b]]
  /\ UNCHANGED <<book, rendition, pdfViewer, currentFileType, currentBookPath,
                 bookIdentifier, highlights, selectedCfiRange, library, librarySaveTimeout,
                 libraryShown, backToLibraryBtn, engines, clock, phase, highlightStore, coverStore>>
  /\ ipc' = IpcAfter(t)
  /\ UNCHANGED <<editingBookId, settings, settingsStore>>

\* saveLibrary answered: await loadBook(bookPath)
OblSave(t) ==
  /\ phase # "closed"
  /\ tasks[t].pc = "obl_save"
  /\ Replied(t)
  /\ LoadBook(t, tasks[t], tasks[t].path)
  /\ UNCHANGED NotLoadVars
  /\ ipc' = IpcAfter(t)
  /\ UNCHANGED <<editingBookId, settings, settingsStore>>

\* a locator the engine can resolve in the document: the CFIs it reports itself
ValidCfi(doc, pos) == pos \in CFIs

\* the replay of openBookFromLibrary whose failure reaches the outer catch block
\* (alert 'Failed to open book')
ResumeDoneThrows(t) ==
  /\ phase # "closed"
  /\ tasks[t].pc \in {"resume_epub", "resume_pdf"}
  /\ Replied(t)
  /\ tasks[t].pc = "resume_pdf" => ~engines[tasks[t].h].rendering
  /\ LET h == tasks[t].h
         ok == tasks[t].pc = "resume_pdf" \/ ValidCfi(engines[h].doc, tasks[t].pos)
     IN /\ engines' = IF tasks[t].pc = "resume_epub" /\ ok
                      THEN Displayed(engines, h, tasks[t].pos) ELSE engines
        /\ hist' = [hist EXCEPT !.alerted = @ \/ ~ok]
  /\ tasks' = [tasks EXCEPT ![t] = IdleTask]
  /\ UNCHANGED <<book, rendition, pdfViewer, currentFileType, currentBookPath,
                 bookIdentifier, highlights, selectedCfiRange, library, heap,
                 librarySaveTimeout, libraryShown, backToLibraryBtn, clock, phase,
                 libraryStore, highlightStore, coverStore>>
  /\ ipc' = IpcAfter(t)
  /\ UNCHANGED <<editingBookId, settings, settingsStore>>

\* rendition.display(lastPosition) or pdfViewer.goToPage(pageNum) settled (goToPage
\* once no render is going on any more); a failure is caught and logged:
\* openBookFromLibrary returns
ResumeDone(t) ==
  /\ phase # "closed"
  /\ tasks[t].pc \in {"resume_epub", "resume_pdf"}
  /\ Replied(t)
  /\ tasks[t].pc = "resume_pdf" => ~engines[tasks[t].h].rendering
  /\ LET h == tasks[t].h
     IN engines' = IF tasks[t].pc = "resume_epub" /\ ValidCfi(engines[h].doc, tasks[t].pos)
                   THEN Displayed(engines, h, tasks[t].pos) ELSE engines
  /\ tasks' = [tasks EXCEPT ![t] = IdleTask]
  /\ UNCHANGED <<book, rendition, pdfViewer, currentFileType, currentBookPath,
                 bookIdentifier, highlights, selectedCfiRange, library, heap,
                 librarySaveTimeout, libraryShown, backToLibraryBtn, clock, phase,
                 libraryStore, highlightStore, coverStore, hist>>
  /\ ipc' = IpcAfter(t)
  /\ UNCHANGED <<editingBookId, settings, settingsStore>>

\* ----------------------------------------------------------- PDF page turns
\* a render of viewer h finished: pageRendering is reset and a page that was asked
\* for meanwhile is rendered next
PdfRendered(h) ==
  /\ phase # "closed"
  /\ h \in DOMAIN engines
  /\ engines[h].kind = "pdf" /\ engines[h].rendering
  /\ engines' = IF engines[h].pending # 0
                THEN RenderPage([engines EXCEPT ![h].rendering = FALSE, ![h].pending = 0],
                                h, engines[h].pending)
                ELSE [engines EXCEPT ![h].rendering = FALSE]
  /\ UNCHANGED <<book, rendition, pdfViewer, currentFileType, currentBookPath,
                 bookIdentifier, highlights, selectedCfiRange, library, heap,
                 librarySaveTimeout, libraryShown, backToLibraryBtn, tasks, clock, phase,
                 libraryStore, highlightStore, coverStore, ipc, hist,
                 editingBookId, settings, settingsStore>>

\* a render of viewer h failed (getPage or page.render rejected): the catch block of
\* renderPage resets pageRendering and leaves pageNumPending as it is
PdfRenderFailed(h) ==
  /\ phase # "closed"
  /\ h \in DOMAIN engines
  /\ engines[h].kind = "pdf" /\ engines[h].rendering
  /\ engines' = [engines EXCEPT ![h].rendering = FALSE]
  /\ UNCHANGED <<book, rendition, pdfViewer, currentFileType, currentBookPath,
                 bookIdentifier, highlights, selectedCfiRange, library, heap,
                 librarySaveTimeout, libraryShown, backToLibraryBtn, tasks, clock, phase,
                 libraryStore, highlightStore, coverStore, ipc, hist,
                 editingBookId, settings, settingsStore>>

\* PDFViewer.nextPage()
NextPage(E, h) == IF E[h].page < E[h].pages THEN RenderPage(E, h, E[h].page + 1) ELSE E

\* PDFViewer.previousPage()
PreviousPage(E, h) == IF E[h].page > 1 THEN RenderPage(E, h, E[h].page - 1) ELSE E

\* the Next button or key with a PDF open: goToNextPage
GoToNextPage ==
  /\ phase = "running"
  /\ currentFileType = "pdf" /\ pdfViewer # 0
  /\ engines' = NextPage(engines, pdfViewer)
  /\ UNCHANGED <<book, rendition, pdfViewer, currentFileType, currentBookPath,
                 bookIdentifier, highlights, selectedCfiRange, library, heap,
                 librarySaveTimeout, libraryShown, backToLibraryBtn, tasks, clock, phase,
                 libraryStore, highlightStore, coverStore, ipc, hist,
                 editingBookId, settings, settingsStore>>

\* the Previous button or key with a PDF open: goToPreviousPage
GoToPreviousPage ==
  /\ phase = "running"
  /\ currentFileType = "pdf" /\ pdfViewer # 0
  /\ engines' = PreviousPage(engines, pdfViewer)
  /\ UNCHANGED <<book, rendition, pdfViewer, currentFileType, currentBookPath,
                 bookIdentifier, highlights, selectedCfiRange, library, heap,
                 librarySaveTimeout, libraryShown, backToLibraryBtn, tasks, clock, phase,
                 libraryStore, highlightStore, coverStore, ipc, hist,
                 editingBookId, settings, settingsStore>>

\* library.filter(b => b.id !== bookId)
WithoutId(lib, hp, id) == SelectSeq(lib, LAMBDA o : hp[o].id # id)

\* a remove that deletes the cover file of the entry as well
RemoveBookFromLibraryAndCover(i) ==
  /\ phase = "running"
  /\ libraryShown
  /\ i \in 1..Len(library)
  /\ library' = WithoutId(library, heap, heap[library[i]].id)
  /\ libraryStore' = SaveLibrary(library', heap)
  /\ hist' = [LibWrote(hist, library') EXCEPT
                !.unsaved = @ \cap {library'[j] : j \in 1..Len(library')}]
  /\ UNCHANGED <<book, rendition, pdfViewer, currentFileType, currentBookPath,
                 bookIdentifier, highlights, selectedCfiRange, heap, librarySaveTimeout,
                 libraryShown, backToLibraryBtn, engines, tasks, clock, phase, highlightStore>>
  /\ coverStore' = coverStore \ {heap[library[i]].coverPath}
  /\ UNCHANGED <<ipc, editingBookId, settings, settingsStore>>

\* the card's Remove button, confirmed: removeBookFromLibrary(book.id)
RemoveBookFromLibrary(i) ==
  /\ phase = "running"
  /\ libraryShown
  /\ i \in 1..Len(library)
  /\ library' = WithoutId(library, heap, heap[library[i]].id)
  /\ libraryStore' = SaveLibrary(library', heap)
  /\ hist' = [LibWrote(hist, library') EXCEPT
                !.unsaved = @ \cap {library'[j] : j \in 1..Len(library')}]
  /\ UNCHANGED <<book, rendition, pdfViewer, currentFileType, currentBookPath,
                 bookIdentifier, highlights, selectedCfiRange, heap, librarySaveTimeout,
                 libraryShown, backToLibraryBtn, engines, tasks, clock, phase, highlightStore, coverStore>>
  /\ UNCHANGED <<ipc, editingBookId, settings, settingsStore>>

\* library.find(b => b.id === id): the reference of the first match, 0 when none
FindById(lib, hp, id) ==
  IF \E i \in 1..Len(lib) : hp[lib[i]].id = id
  THEN lib[CHOOSE i \in 1..Len(lib) :
             hp[lib[i]].id = id /\ \A j \in 1..(i-1) : hp[lib[j]].id # id]
  ELSE 0

\* the card's Edit button: openEditBookDialog(book.id)
OpenEditBookDialog(i) ==
  /\ phase = "running"
  /\ libraryShown
  /\ i \in 1..Len(library)
  /\ editingBookId' = heap[library[i]].id
  /\ UNCHANGED <<book, rendition, pdfViewer, currentFileType, currentBookPath,
                 bookIdentifier, highlights, selectedCfiRange, library, heap,
                 librarySaveTimeout, libraryShown, backToLibraryBtn, engines, tasks, clock,
                 phase, libraryStore, highlightStore, coverStore, ipc, hist, settings,
                 settingsStore>>

\* the dialog's Cancel button: cancelEditBook
CancelEditBook ==
  /\ phase = "running"
  /\ editingBookId # <<>>
  /\ editingBookId' = <<>>
  /\ UNCHANGED <<book, rendition, pdfViewer, currentFileType, currentBookPath,
                 bookIdentifier, highlights, selectedCfiRange, library, heap,
                 librarySaveTimeout, libraryShown, backToLibraryBtn, engines, tasks, clock,
                 phase, libraryStore, highlightStore, coverStore, ipc, hist, settings,
                 settingsStore>>

\* the texts the two fields of the edit dialog can hold
EditTexts == {<<>>, <<"N">>}

\* a save of the dialog that leaves the write to the debounce timer
SaveEditedBookDebounced(t, title, author) ==
  /\ phase = "running"
  /\ Free(t)
  /\ editingBookId # <<>>
  /\ FindById(library, heap, editingBookId) # 0
  /\ LET b == FindById(library, heap, editingBookId)
     IN heap' = [heap EXCEPT ![b].title = OrElse(title, StrUnknownTitle),
                             ![b].author = OrElse(author, StrUnknownAuthor)]
  /\ librarySaveTimeout' = (IF librarySaveTimeout > 0 THEN librarySaveTimeout - 1 ELSE 0) + 1
  /\ tasks' = [tasks EXCEPT ![t] = [IdleTask EXCEPT !.pc = "edit_save", !.op = "edit",
                                                     !.title = title, !.author = author]]
  /\ UNCHANGED <<book, rendition, pdfViewer, currentFileType, currentBookPath,
                 bookIdentifier, highlights, selectedCfiRange, library, libraryStore, hist,
                 libraryShown, backToLibraryBtn, engines, clock, phase,
                 highlightStore, coverStore, editingBookId, settings, settingsStore>>
  /\ ipc' = IpcAfter(t)

\* the dialog's Save button with title and author typed: saveEditedBook up to
\* `await saveLibrary()`; without an entry of the id it returns
SaveEditedBook(t, title, author) ==
  /\ phase = "running"
  /\ Free(t)
  /\ editingBookId # <<>>
  /\ FindById(library, heap, editingBookId) # 0
  /\ LET b == FindById(library, heap, editingBookId)
     IN heap' = [heap EXCEPT ![b].title = OrElse(title, StrUnknownTitle),
                             ![b].author = OrElse(author, StrUnknownAuthor)]
  /\ libraryStore' = SaveLibrary(library, heap')
  /\ hist' = LibWrote(hist, library)
  /\ tasks' = [tasks EXCEPT ![t] = [IdleTask EXCEPT !.pc = "edit_save", !.op = "edit",
                                                     !.title = title, !.author = author]]
  /\ UNCHANGED <<book, rendition, pdfViewer, currentFileType, currentBookPath,
                 bookIdentifier, highlights, selectedCfiRange, library, librarySaveTimeout,
                 libraryShown, backToLibraryBtn, engines, clock, phase,
                 highlightStore, coverStore, editingBookId, settings, settingsStore>>
  /\ ipc' = IpcAfter(t)

\* saveLibrary answered: renderLibrary, the dialog is closed, editingBookId = null
EditSave(t) ==
  /\ phase # "closed"
  /\ tasks[t].pc = "edit_save"
  /\ Replied(t)
  /\ editingBookId' = <<>>
  /\ tasks' = [tasks EXCEPT ![t] = IdleTask]
  /\ UNCHANGED <<book, rendition, pdfViewer, currentFileType, currentBookPath,
                 bookIdentifier, highlights, selectedCfiRange, library, heap,
                 librarySaveTimeout, libraryShown, backToLibraryBtn, engines, clock, phase,
                 libraryStore, highlightStore, coverStore, hist, settings, settingsStore>>
  /\ ipc' = IpcAfter(t)

\* the Back button: backToLibrary
BackToLibrary ==
  /\ phase = "running"
  /\ backToLibraryBtn
  /\ engines' = Destroy(engines, rendition)
  /\ rendition' = 0
  /\ book' = IF rendition # 0 THEN 0 ELSE book
  /\ highlights' = <<>>
  /\ libraryShown' = TRUE
  /\ backToLibraryBtn' = FALSE
  /\ UNCHANGED <<pdfViewer, currentFileType, currentBookPath, bookIdentifier,
                 selectedCfiRange, library, heap, librarySaveTimeout, tasks, clock, phase,
                 libraryStore, highlightStore, coverStore, hist>>
  /\ UNCHANGED <<ipc, editingBookId, settings, settingsStore>>

\* the window's close event reached the renderer: cleanup()
Cleanup ==
  /\ phase = "running"
  /\ engines' = Destroy(Destroy(Destroy(engines, rendition), book), pdfViewer)
  /\ rendition' = 0
  /\ book' = 0
  /\ pdfViewer' = 0
  /\ highlights' = <<>>
  /\ library' = <<>>
  /\ phase' = "closing"
  /\ UNCHANGED <<currentFileType, currentBookPath, bookIdentifier, selectedCfiRange, heap,
                 librarySaveTimeout, libraryShown, backToLibraryBtn, tasks, clock, libraryStore,
                 highlightStore, coverStore, hist>>
  /\ UNCHANGED <<ipc, editingBookId, settings, settingsStore>>

\* the window is destroyed: nothing of the renderer runs any more
Terminate ==
  /\ phase = "closing"
  /\ phase' = "closed"
  /\ UNCHANGED <<book, rendition, pdfViewer, currentFileType, currentBookPath,
                 bookIdentifier, highlights, selectedCfiRange, library, heap,
                 librarySaveTimeout, libraryShown, backToLibraryBtn, engines, tasks, clock, libraryStore,
                 highlightStore, coverStore, hist>>
  /\ UNCHANGED <<ipc, editingBookId, settings, settingsStore>>

\* time passes
Tick ==
  /\ phase # "closed"
  /\ clock < MaxClock
  /\ clock' = clock + 1
  /\ UNCHANGED <<book, rendition, pdfViewer, currentFileType, currentBookPath,
                 bookIdentifier, highlights, selectedCfiRange, library, heap,
                 librarySaveTimeout, libraryShown, backToLibraryBtn, engines, tasks, phase, libraryStore,
                 highlightStore, coverStore, hist>>
  /\ UNCHANGED <<ipc, editingBookId, settings, settingsStore>>

\* ------------------------------------------- location changes and the debounce
\* Math.floor in the place of Math.round
ProgressFloor(pm) == LET v == IF pm = -1 THEN 0 ELSE pm IN v \div 10

\* Math.round((location.start.percentage || 0) * 100), the fraction in thousandths
Progress(pm) == LET v == IF pm = -1 THEN 0 ELSE pm IN (v + 5) \div 10

\* clearTimeout(window.librarySaveTimeout): the timer set last is cancelled if pending
ClearTimeout(n) == IF n > 0 THEN n - 1 ELSE 0

\* rendition h emits 'relocated' with location.start = {cfi, percentage}:
\* onLocationChange(location)
OnLocationChange(h, cfi, pm) ==
  /\ phase # "closed"
  /\ h \in DOMAIN engines
  /\ engines[h].kind = "rendition" /\ engines[h].live /\ engines[h].onRelocated
  /\ LET b == IF currentBookPath # NoPath
              THEN FindByPath(library, heap, currentBookPath) ELSE 0
     IN IF b # 0
        THEN /\ heap' = [heap EXCEPT ![b].lastPosition = cfi, ![b].progress = Progress(pm)]
             /\ librarySaveTimeout' = ClearTimeout(librarySaveTimeout) + 1
             /\ hist' = [hist EXCEPT !.last = b, !.loc = <<cfi, pm>>, !.evt = 1 - @,
                                     !.unsaved = @ \cup {b},
                                     !.burstWrote = FALSE, !.timerWrites = 0]
        ELSE UNCHANGED <<heap, librarySaveTimeout, hist>>
  /\ settings' = SettingsSet(settings, "lastLocation", cfi)
  /\ settingsStore' = SettingsFile(settings')
  /\ UNCHANGED <<book, rendition, pdfViewer, currentFileType, currentBookPath,
                 bookIdentifier, highlights, selectedCfiRange, library, libraryShown, backToLibraryBtn,
                 engines, tasks, clock, phase, libraryStore, highlightStore, coverStore>>
  /\ UNCHANGED <<ipc, editingBookId>>

\* two seconds passed since setTimeout: the callback runs saveLibrary()
DebounceFire ==
  /\ phase # "closed"
  /\ librarySaveTimeout > 0
  /\ librarySaveTimeout' = librarySaveTimeout - 1
  /\ libraryStore' = SaveLibrary(library, heap)
  /\ hist' = [LibWrote(hist, library) EXCEPT !.burstWrote = FALSE,
                          !.timerWrites = IF @ < 2 THEN @ + 1 ELSE @]
  /\ UNCHANGED <<book, rendition, pdfViewer, currentFileType, currentBookPath,
                 bookIdentifier, highlights, selectedCfiRange, library, heap, libraryShown, backToLibraryBtn,
                 engines, tasks, clock, phase, highlightStore, coverStore>>
  /\ UNCHANGED <<ipc, editingBookId, settings, settingsStore>>

\* ------------------------------------------------------------------ highlights
\* rendition h emits 'selected': handleTextSelection(cfiRange, contents)
HandleTextSelection(h, cfi) ==
  /\ phase = "running"
  /\ h \in DOMAIN engines
  /\ engines[h].kind = "rendition" /\ engines[h].live /\ engines[h].onSelected
  /\ selectedCfiRange' = cfi
  /\ UNCHANGED <<book, rendition, pdfViewer, currentFileType, currentBookPath,
                 bookIdentifier, highlights, library, heap, librarySaveTimeout,
                 libraryShown, backToLibraryBtn, engines, tasks, clock, phase, libraryStore, highlightStore,
                 coverStore, hist>>
  /\ UNCHANGED <<ipc, editingBookId, settings, settingsStore>>

\* the dialog's Save button: saveHighlight() up to `await book.getRange(...)`; without
\* a selection it returns, without a book it throws into its catch block
SaveHighlight(t) ==
  /\ phase = "running"
  /\ Free(t)
  /\ selectedCfiRange # NoPos
  /\ book # 0
  /\ tasks' = [tasks EXCEPT ![t] = [IdleTask EXCEPT !.pc = "hl_range", !.op = "highlight"]]
  /\ UNCHANGED <<book, rendition, pdfViewer, currentFileType, currentBookPath,
                 bookIdentifier, highlights, selectedCfiRange, library, heap,
                 librarySaveTimeout, libraryShown, backToLibraryBtn, engines, clock, phase, libraryStore,
                 highlightStore, coverStore, hist>>
  /\ ipc' = IpcAfter(t)
  /\ UNCHANGED <<editingBookId, settings, settingsStore>>

\* the record saveHighlight builds; `under` is history, read by the properties only:
\* the book identifier that was current when the highlight was created
Highlight(cfiRange, now, under) ==
  [id |-> DecStr(now), cfiRange |-> cfiRange, created |-> now, under |-> under]

\* the range arrived: highlights.push(highlight); await saveHighlightsToFile()
HlRange(t) ==
  /\ phase # "closed"
  /\ tasks[t].pc = "hl_range"
  /\ Replied(t)
  /\ Len(highlights) < MaxHighlights
  /\ highlights' = Append(highlights, Highlight(selectedCfiRange, clock, bookIdentifier))
  /\ highlightStore' = SaveHighlightsFile(highlightStore, bookIdentifier, highlights')
  /\ tasks' = [tasks EXCEPT ![t].pc = "hl_save"]
  /\ UNCHANGED <<book, rendition, pdfViewer, currentFileType, currentBookPath,
                 bookIdentifier, selectedCfiRange, library, heap, librarySaveTimeout,
                 libraryShown, backToLibraryBtn, engines, clock, phase, libraryStore, coverStore>>
  /\ hist' = [hist EXCEPT !.created =
                 {c \in @ : c[1] # bookIdentifier} \cup {<<bookIdentifier, highlights'>>}]
  /\ ipc' = IpcAfter(t)
  /\ UNCHANGED <<editingBookId, settings, settingsStore>>

\* the save answered: applyHighlights, updateHighlightsList, closeHighlightDialog
HlSave(t) ==
  /\ phase # "closed"
  /\ tasks[t].pc = "hl_save"
  /\ Replied(t)
  /\ selectedCfiRange' = NoPos
  /\ tasks' = [tasks EXCEPT ![t] = IdleTask]
  /\ UNCHANGED <<book, rendition, pdfViewer, currentFileType, currentBookPath,
                 bookIdentifier, highlights, library, heap, librarySaveTimeout,
                 libraryShown, backToLibraryBtn, engines, clock, phase, libraryStore, highlightStore,
                 coverStore, hist>>
  /\ ipc' = IpcAfter(t)
  /\ UNCHANGED <<editingBookId, settings, settingsStore>>

\* the ids the entries of the highlights panel can carry: Date.now().toString()
HighlightIds == {DecStr(n) : n \in 0..MaxClock}

\* a filter that keeps what it should drop
WithoutHighlightInverted(hs, id) == SelectSeq(hs, LAMBDA x : x.id = id)

\* highlights.filter(h => h.id !== highlightId)
WithoutHighlight(hs, id) == SelectSeq(hs, LAMBDA x : x.id # id)

\* the Delete button of a panel entry, confirmed: deleteHighlight(id) up to
\* `await saveHighlightsToFile()`
DeleteHighlight(t, id) ==
  /\ phase = "running"
  /\ Free(t)
  /\ highlights' = WithoutHighlight(highlights, id)
  /\ highlightStore' = SaveHighlightsFile(highlightStore, bookIdentifier, highlights')
  /\ tasks' = [tasks EXCEPT ![t] = [IdleTask EXCEPT !.pc = "hd_save", !.op = "delete",
                                                     !.id = id]]
  /\ hist' = [hist EXCEPT !.created =
                 {c \in @ : c[1] # bookIdentifier} \cup {<<bookIdentifier, highlights'>>}]
  /\ UNCHANGED <<book, rendition, pdfViewer, currentFileType, currentBookPath,
                 bookIdentifier, selectedCfiRange, library, heap, librarySaveTimeout,
                 libraryShown, backToLibraryBtn, engines, clock, phase, libraryStore,
                 coverStore>>
  /\ ipc' = IpcAfter(t)
  /\ UNCHANGED <<editingBookId, settings, settingsStore>>

\* the save answered: applyHighlights, updateHighlightsList; deleteHighlight returns
DelSave(t) ==
  /\ phase # "closed"
  /\ tasks[t].pc = "hd_save"
  /\ Replied(t)
  /\ tasks' = [tasks EXCEPT ![t] = IdleTask]
  /\ UNCHANGED <<book, rendition, pdfViewer, currentFileType, currentBookPath,
                 bookIdentifier, highlights, selectedCfiRange, library, heap,
                 librarySaveTimeout, libraryShown, backToLibraryBtn, engines, clock, phase,
                 libraryStore, highlightStore, coverStore, hist>>
  /\ ipc' = IpcAfter(t)
  /\ UNCHANGED <<editingBookId, settings, settingsStore>>

\* ------------------------------------------------ a later start of the program
\* the entry an earlier run stored for path p, added at time `now`
StoredEntry(p, now) ==
  LET tk == AddMetadata([IdleTask EXCEPT !.path = p,
                           !.ftype = IF Extension(p) = ExtPdf THEN "pdf" ELSE "epub"], now)
  IN LibraryEntry(tk, IF CoverSaved(tk) THEN tk.bookId ELSE <<>>, now)

\* start with the library.json an earlier run left: the PDF added after the EPUB
InitLoaded ==
  Started([present |-> TRUE, entries |-> <<StoredEntry(PathX, 0), StoredEntry(PathB, 0)>>])

\* the entry of an earlier run for path p with a recorded position and progress
StoredAt(p, pos, prog) ==
  [StoredEntry(p, 0) EXCEPT !.lastPosition = pos, !.progress = prog]

\* <<lastPosition, progress>> library.json may hold for the EPUB: none, a locator of
\* the document, a locator that went stale when the file was modified
EpubPositions == {<<NoPos, 0>>, <<"cfi1", 42>>, <<"stale", 43>>}

\* lastPosition values library.json may hold for the PDF (the file is parsed as it is)
PdfPositions == {NoPos, "2", "3", "0", "cfi1"}

\* start with no library.json, or with one that holds the PDF and the EPUB
InitResume ==
  \/ Init
  \/ \E e \in EpubPositions, x \in PdfPositions :
       Started([present |-> TRUE,
                entries |-> <<StoredAt(PathX, x, 0), StoredAt(PathB, e[1], e[2])>>])

\* the location.start values handed to onLocationChange when the engine's percentage
\* is in range, above 1, below 0 or undefined (-1)
WideLocations == {<<"cfi1", 420>>, <<"cfi1", 1200>>, <<"cfi2", -100>>, <<"cfi2", -1>>}

\* ------------------------------------------------------------------ start-up
\* what library.json can be when the program starts: missing, an array of entries,
\* text that is no JSON, a file that cannot be read, JSON that is no array
LibraryFiles ==
  {[present |-> FALSE, entries |-> <<>>],
   [present |-> TRUE, entries |-> <<>>],
   [present |-> TRUE, entries |-> <<StoredEntry(PathX, 0), StoredEntry(PathB, 0)>>],
   [present |-> TRUE, text |-> "no json"],
   [present |-> TRUE, text |-> "unreadable"],
   [present |-> TRUE, json |-> "null"],
   [present |-> TRUE, json |-> "object"]}

\* what settings.json can be when the program starts: missing, an object (empty,
\* with some of the known keys, with a key of an older version), text that is no
\* JSON, the JSON null
SettingsFiles ==
  {NoSettingsFile,
   SettingsFile(<<>>),
   SettingsFile([fontSize |-> 20]),
   SettingsFile([theme |-> "dark", legacy |-> 1]),
   SettingsFile(SettingsSet(Defaults, "lastLocation", "cfi1")),
   [present |-> TRUE, text |-> "no json"],
   [present |-> TRUE, json |-> "null"]}

\* the renderer when DOMContentLoaded fires: nothing loaded yet
InitBoot ==
  /\ book = 0 /\ rendition = 0 /\ pdfViewer = 0
  /\ currentFileType = "null"
  /\ currentBookPath = NoPath
  /\ bookIdentifier = StrNull
  /\ highlights = <<>>
  /\ selectedCfiRange = NoPos
  /\ heap = <<>>
  /\ library = <<>>
  /\ librarySaveTimeout = 0
  /\ libraryShown = TRUE
  /\ backToLibraryBtn = FALSE
  /\ engines = <<>>
  /\ tasks = [t \in Tasks |-> IdleTask]
  /\ clock = 0
  /\ phase = "settings"
  /\ libraryStore \in LibraryFiles
  /\ highlightStore = [x \in {} |-> <<>>]
  /\ coverStore = {}
  /\ ipc = <<>>
  /\ editingBookId = <<>>
  /\ settings = Defaults
  /\ settingsStore \in SettingsFiles
  /\ hist = EmptyHist

\* ipcMain 'settings:load': the parsed document, null when the file is missing,
\* cannot be read or parsed, or holds the JSON null
SettingsLoadAnswer(file) ==
  IF file.present /\ "doc" \in DOMAIN file THEN [null |-> FALSE, doc |-> file.doc]
  ELSE [null |-> TRUE]

\* DOMContentLoaded: settingsManager = new SettingsManager(); await
\* settingsManager.load()
SettingsManagerLoad ==
  /\ phase = "settings"
  /\ LET saved == SettingsLoadAnswer(settingsStore)
     IN settings' = IF ~saved.null THEN Spread(Defaults, saved.doc) ELSE settings
  /\ phase' = "library"
  /\ UNCHANGED <<book, rendition, pdfViewer, currentFileType, currentBookPath,
                 bookIdentifier, highlights, selectedCfiRange, library, heap,
                 librarySaveTimeout, libraryShown, backToLibraryBtn, engines, tasks, clock,
                 libraryStore, highlightStore, coverStore, ipc, hist, editingBookId,
                 settingsStore>>

\* ipcMain 'library:load': the parsed document, [] when the file is missing or
\* cannot be read or parsed
LibraryLoadAnswer(file) ==
  IF "json" \in DOMAIN file THEN [array |-> FALSE, json |-> file.json]
  ELSE IF file.present /\ "entries" \in DOMAIN file
       THEN [array |-> TRUE, entries |-> file.entries]
  ELSE [array |-> TRUE, entries |-> <<>>]

\* the answer is an array: library.length and renderLibrary() do not throw
IsArray(answer) == answer.array

\* a loadLibrary without its try/catch: what is no array stops the start-up
LoadLibraryUncaught ==
  /\ phase = "library"
  /\ LET answer == LibraryLoadAnswer(libraryStore)
     IN IF IsArray(answer)
        THEN /\ heap' = answer.entries
             /\ library' = [i \in 1..Len(heap') |-> i]
             /\ phase' = "running"
        ELSE /\ UNCHANGED <<heap, library>>
             /\ phase' = "aborted"
  /\ UNCHANGED <<book, rendition, pdfViewer, currentFileType, currentBookPath,
                 bookIdentifier, highlights, selectedCfiRange,
                 librarySaveTimeout, libraryShown, backToLibraryBtn, engines, tasks, clock,
                 libraryStore, highlightStore, coverStore, ipc, hist, editingBookId,
                 settings, settingsStore>>

\* DOMContentLoaded: await loadLibrary(); showLibrary(); the listeners are set up
LoadLibrary ==
  /\ phase = "library"
  /\ LET answer == LibraryLoadAnswer(libraryStore)
     IN /\ heap' = IF IsArray(answer) THEN answer.entries ELSE <<>>
        /\ library' = [i \in 1..Len(heap') |-> i]
  /\ phase' = "running"
  /\ UNCHANGED <<book, rendition, pdfViewer, currentFileType, currentBookPath,
                 bookIdentifier, highlights, selectedCfiRange,
                 librarySaveTimeout, libraryShown, backToLibraryBtn, engines, tasks, clock,
                 libraryStore, highlightStore, coverStore, ipc, hist, editingBookId,
                 settings, settingsStore>>

\* the font size buttons: increaseFontSize (by = 2) and decreaseFontSize (by = -2)
ChangeFontSize(by) ==
  /\ phase = "running"
  /\ LET size == settings["fontSize"] + by
         capped == IF by > 0 THEN (IF size < 36 THEN size ELSE 36)
                   ELSE (IF size > 10 THEN size ELSE 10)
     IN settings' = SettingsSet(settings, "fontSize", capped)
  /\ settingsStore' = SettingsFile(settings')
  /\ UNCHANGED <<book, rendition, pdfViewer, currentFileType, currentBookPath,
                 bookIdentifier, highlights, selectedCfiRange, library, heap,
                 librarySaveTimeout, libraryShown, backToLibraryBtn, engines, tasks, clock,
                 phase, libraryStore, highlightStore, coverStore, ipc, hist,
                 editingBookId>>

\* the Reset button, confirmed: resetSettings
ResetSettings ==
  /\ phase = "running"
  /\ settings' = Defaults
  /\ settingsStore' = SettingsFile(settings')
  /\ UNCHANGED <<book, rendition, pdfViewer, currentFileType, currentBookPath,
                 bookIdentifier, highlights, selectedCfiRange, library, heap,
                 librarySaveTimeout, libraryShown, backToLibraryBtn, engines, tasks, clock,
                 phase, libraryStore, highlightStore, coverStore, ipc, hist,
                 editingBookId>>

\* ------------------------------------------------------------- specifications
\* resumptions of loadEPUB
EpubSteps ==
  \E t \in Tasks : \/ EpubRead(t)
                   \/ EpubReady(t)
                   \/ EpubPause(t)
                   \/ EpubDisplay(t)
                   \/ EpubIdent(t)
                   \/ EpubHl(t)
                   \/ EpubSettings(t)

\* resumptions of loadPDF and of the addBookToLibrary call that ends it
PdfSteps ==
  \E t \in Tasks : \/ PdfRead(t)
                   \/ PdfLoad(t)
                   \/ PdfMeta(t)
                   \/ AddRead(t)
                   \/ AddLoad(t)
                   \/ AddSave(t)

\* the reading session: files opened from the menu, also while a load is in flight
NextSession ==
  \/ \E t \in Tasks, p \in Paths : OpenFile(t, p)
  \/ EpubSteps
  \/ PdfSteps
  \/ BackToLibrary
  \/ Cleanup
  \/ Terminate

SpecSession == Init /\ [][NextSession]_vars

\* the library view: books added and removed, also while an add is in flight
NextLibrary ==
  \/ \E t \in Tasks, p \in {PathB, PathX} : AddBook(t, p)
  \/ \E t \in Tasks : AddCover(t) \/ AddCoverSaved(t)
  \/ \E i \in 1..Len(library) : RemoveBookFromLibrary(i)
  \/ EpubSteps
  \/ PdfSteps
  \/ BackToLibrary
  \/ Tick

SpecLibrary == Init /\ [][NextLibrary]_vars

\* reading progress: books opened from a stored library, location events, the
\* debounce timer, leaving the book and closing the window
NextProgress ==
  \/ \E t \in Tasks, i \in 1..Len(library) : OpenBookFromLibrary(t, i)
  \/ \E t \in Tasks : OblSave(t)
  \/ \E t \in Tasks : ResumeDone(t)
  \/ EpubSteps
  \/ PdfSteps
  \/ \E h \in 1..Len(engines), loc \in Locations : OnLocationChange(h, loc[1], loc[2])
  \/ DebounceFire
  \/ BackToLibrary
  \/ Cleanup
  \/ Terminate

SpecProgress == InitLoaded /\ [][NextProgress]_vars

\* highlights: one operation at a time, books opened from the menu, text selected
\* and highlighted
NextHighlights ==
  \/ \E t \in Tasks, p \in {PathG, PathB} : Quiet /\ OpenFile(t, p)
  \/ EpubSteps
  \/ \E h \in 1..Len(engines), cfi \in CFIs : Quiet /\ HandleTextSelection(h, cfi)
  \/ \E t \in Tasks : Quiet /\ SaveHighlight(t)
  \/ \E t \in Tasks : HlRange(t)
  \/ \E t \in Tasks : HlSave(t)
  \/ \E t \in Tasks, id \in HighlightIds : Quiet /\ DeleteHighlight(t, id)
  \/ \E t \in Tasks : DelSave(t)
  \/ Quiet /\ BackToLibrary
  \/ Tick

SpecHighlights == Init /\ [][NextHighlights]_vars

\* resuming: one operation at a time, books opened from the menu or from a card of a
\* stored library, pages turned
NextResume ==
  \/ \E t \in Tasks, p \in {PathB, PathX} : Quiet /\ OpenFile(t, p)
  \/ \E t \in Tasks, i \in 1..Len(library) : Quiet /\ OpenBookFromLibrary(t, i)
  \/ \E t \in Tasks : OblSave(t)
  \/ \E t \in Tasks : ResumeDone(t)
  \/ EpubSteps
  \/ PdfSteps
  \/ \E h \in 1..Len(engines) : PdfRendered(h)
  \/ Quiet /\ GoToNextPage
  \/ Quiet /\ GoToPreviousPage
  \/ Quiet /\ BackToLibrary

SpecResume == InitResume /\ [][NextResume]_vars

\* locations: the EPUB of a stored library is opened from its card and the engine
\* reports locations, one operation at a time
NextLocations ==
  \/ \E t \in Tasks : Quiet /\ OpenBookFromLibrary(t, Len(library))
  \/ \E t \in Tasks : OblSave(t)
  \/ \E t \in Tasks : ResumeDone(t)
  \/ EpubSteps
  \/ \E h \in 1..Len(engines), loc \in WideLocations :
       Quiet /\ OnLocationChange(h, loc[1], loc[2])
  \/ DebounceFire
  \/ Quiet /\ BackToLibrary

SpecLocations == InitLoaded /\ [][NextLocations]_vars

\* file types: files of known and unknown extensions opened and added, one operation
\* at a time, and the locations the open EPUB reports
NextFormat ==
  \/ \E t \in Tasks, p \in {PathT, PathX, PathB} : Quiet /\ OpenFile(t, p)
  \/ \E t \in Tasks, p \in {PathT, PathB} : Quiet /\ AddBook(t, p)
  \/ \E t \in Tasks : AddCover(t) \/ AddCoverSaved(t)
  \/ EpubSteps
  \/ PdfSteps
  \/ \E h \in 1..Len(engines) : Quiet /\ OnLocationChange(h, "cfi1", 420)
  \/ DebounceFire
  \/ Quiet /\ BackToLibrary

SpecFormat == Init /\ [][NextFormat]_vars

\* identifiers: documents with and without publisher identifier opened and added at
\* different times, one operation at a time
NextResolve ==
  \/ \E t \in Tasks, p \in {PathG, PathB, PathD} : Quiet /\ OpenFile(t, p)
  \/ \E t \in Tasks, p \in {PathG, PathD, PathX} : Quiet /\ AddBook(t, p)
  \/ \E t \in Tasks : AddCover(t)
  \/ EpubSteps
  \/ PdfSteps
  \/ Quiet /\ BackToLibrary
  \/ Tick

SpecResolve == Init /\ [][NextResolve]_vars

\* editing: the cards of a stored library are edited and removed while the EPUB is
\* read and its progress waits for the debounce timer
NextEdit ==
  \/ \E i \in 1..Len(library) : OpenEditBookDialog(i)
  \/ CancelEditBook
  \/ \E t \in Tasks, title \in EditTexts, author \in EditTexts : SaveEditedBook(t, title, author)
  \/ \E t \in Tasks : EditSave(t)
  \/ \E i \in 1..Len(library) : Quiet /\ RemoveBookFromLibrary(i)
  \/ \E t \in Tasks : Quiet /\ OpenBookFromLibrary(t, Len(library))
  \/ \E t \in Tasks : OblSave(t)
  \/ \E t \in Tasks : ResumeDone(t)
  \/ EpubSteps
  \/ \E h \in 1..Len(engines) : Quiet /\ OnLocationChange(h, "cfi1", 420)
  \/ DebounceFire
  \/ Quiet /\ BackToLibrary

SpecEdit == InitLoaded /\ [][NextEdit]_vars

\* first start, or a later start with the stored library of two entries
InitAdd == Init \/ InitLoaded

\* adding: books added with the Add button, also while an add is in flight, and
\* opened from their cards afterwards
NextAdd ==
  \/ \E t \in Tasks, p \in {PathG, PathB} : AddBook(t, p)
  \/ \E t \in Tasks : AddCover(t) \/ AddCoverSaved(t)
  \/ \E t \in Tasks, i \in 1..Len(library) : Quiet /\ OpenBookFromLibrary(t, i)
  \/ \E t \in Tasks : OblSave(t)
  \/ EpubSteps
  \/ PdfSteps
  \/ Quiet /\ BackToLibrary

SpecAdd == InitAdd /\ [][NextAdd]_vars

\* start-up: the settings and the library are loaded from what the disk holds, then
\* the font size is changed, the settings are reset, cards are removed
NextBoot ==
  \/ SettingsManagerLoad
  \/ LoadLibrary
  \/ ChangeFontSize(2)
  \/ ChangeFontSize(-2)
  \/ ResetSettings
  \/ \E i \in 1..Len(library) : RemoveBookFromLibrary(i)

SpecBoot == InitBoot /\ [][NextBoot]_vars

\* failures: files that cannot be read or parsed are opened and added, next to
\* files that can, one operation at a time
NextFail ==
  \/ \E t \in Tasks, p \in {PathC, PathP, PathU, PathB, PathX} : Quiet /\ OpenFile(t, p)
  \/ \E t \in Tasks, p \in {PathC, PathP, PathU} : Quiet /\ AddBook(t, p)
  \/ EpubSteps
  \/ PdfSteps
  \/ Quiet /\ BackToLibrary

SpecFail == Init /\ [][NextFail]_vars

\* a later start of the program: an earlier run left two highlights of b.epub
InitRace ==
  /\ book = 0 /\ rendition = 0 /\ pdfViewer = 0
  /\ currentFileType = "null"
  /\ currentBookPath = NoPath
  /\ bookIdentifier = StrNull
  /\ highlights = <<>>
  /\ selectedCfiRange = NoPos
  /\ heap = <<>>
  /\ library = <<>>
  /\ librarySaveTimeout = 0
  /\ libraryShown = TRUE
  /\ backToLibraryBtn = FALSE
  /\ engines = <<>>
  /\ tasks = [t \in Tasks |-> IdleTask]
  /\ clock = MaxClock
  /\ phase = "running"
  /\ libraryStore = [present |-> FALSE, entries |-> <<>>]
  /\ LET id == GenerateBookIdentifier(MetadataOf(PathB), 0)
     IN highlightStore = [x \in {id} |-> <<Highlight("cfi1", 0, id), Highlight("cfi2", 1, id)>>]
  /\ coverStore = {}
  /\ ipc = <<>>
  /\ editingBookId = <<>>
  /\ settings = Defaults
  /\ settingsStore = NoSettingsFile
  /\ hist = EmptyHist

\* highlights while a load is in flight: a book is opened from the menu while another
\* is read, and the highlights listed in the panel are deleted at any moment
NextRace ==
  \/ \E t \in Tasks, p \in {PathB, PathD} : OpenFile(t, p)
  \/ EpubSteps
  \/ \E t \in Tasks, i \in 1..Len(highlights) : DeleteHighlight(t, highlights[i].id)
  \/ \E t \in Tasks : DelSave(t)

SpecRace == InitRace /\ [][NextRace]_vars

\* a later start with a library that holds the two copies of one EPUB
InitCopies ==
  Started([present |-> TRUE, entries |-> <<StoredEntry(PathH, 0), StoredEntry(PathG, 0)>>])

\* copies: the cards of two copies of one EPUB are removed, the copies added again,
\* one operation at a time
NextCopies ==
  \/ \E i \in 1..Len(library) : Quiet /\ RemoveBookFromLibrary(i)
  \/ \E t \in Tasks, p \in {PathG, PathH} : Quiet /\ AddBook(t, p)
  \/ \E t \in Tasks : AddRead(t) \/ AddLoad(t) \/ AddCover(t) \/ AddSave(t)
  \/ EpubSteps
  \/ Quiet /\ BackToLibrary
  \/ Tick

SpecCopies == InitCopies /\ [][NextCopies]_vars

\* page turns: the PDF is opened from the menu, pages are turned while renders are
\* going on, and a render finishes or fails
NextRender ==
  \/ \E t \in Tasks : Quiet /\ OpenFile(t, PathX)
  \/ PdfSteps
  \/ \E h \in 1..Len(engines) : PdfRendered(h)
  \/ \E h \in 1..Len(engines) : PdfRenderFailed(h)
  \/ GoToNextPage
  \/ GoToPreviousPage
  \/ Quiet /\ BackToLibrary

SpecRender == Init /\ [][NextRender]_vars

\* ------------------------------------------------------------------ properties
\* C1: in every reachable state the library index holds at most one entry per path,
\* also when two addBookToLibrary calls for the same path overlap.
C1_OnePerPath ==
  \A i, j \in 1..Len(library) :
    heap[library[i]].path = heap[library[j]].path => i = j

\* C2: within a burst of location events (each arriving while the debounce timer of
\* the previous one is still pending) no state but the last event's is ever written
\* to the library store, and the quiet window ends with one write, not more.
C2_OnlyLastWritten ==
  [][/\ (/\ hist'.evt # hist.evt
         /\ librarySaveTimeout > 0
         /\ hist'.last = hist.last
         /\ heap'[hist.last] # heap[hist.last]) => ~hist.burstWrote
     /\ hist'.timerWrites <= 1]_vars

\* C3: once the window is gone, the last location event recorded for every library
\* entry has been carried by some library write, also when cleanup ran before the
\* debounce timer fired.
C3_LastEventWritten == phase = "closed" => hist.unsaved = {}

\* the identifier generateBookIdentifier resolves for the document at path p
IdentifierOf(p) == GenerateBookIdentifier(MetadataOf(p), 0)

\* C4: when no load is in flight any more, the session belongs to the document
\* requested last (currentBookPath): the EPUB book and rendition, or the PDF viewer,
\* are of that document, with its file type and its identifier, whichever load
\* completed last.
C4_SessionOfLastRequest ==
  (Quiet /\ phase = "running") =>
    /\ rendition # 0 =>
          /\ engines[rendition].doc = currentBookPath
          /\ book # 0 /\ engines[book].doc = currentBookPath
          /\ currentFileType = "epub"
          /\ pdfViewer = 0
          /\ bookIdentifier = IdentifierOf(currentBookPath)
    /\ (pdfViewer # 0 /\ engines[pdfViewer].live) =>
          /\ engines[pdfViewer].doc = currentBookPath
          /\ currentFileType = "pdf"
          /\ rendition = 0

\* the live engine instances of kind k that render a document (the temporary engines
\* of addBookToLibrary left aside)
LiveEngines(k) ==
  {h \in DOMAIN engines : engines[h].kind = k /\ engines[h].live /\ ~engines[h].temp}

\* C5: no reachable state has two live engine instances: at most one EPUB book, one
\* rendition and one PDF document, and never an EPUB engine together with a PDF one.
C5_OneLiveEngine ==
  /\ Cardinality(LiveEngines("book")) <= 1
  /\ Cardinality(LiveEngines("rendition")) <= 1
  /\ Cardinality(LiveEngines("pdf")) <= 1
  /\ \A h \in DOMAIN engines : engines[h].orphans = 0
  /\ LiveEngines("pdf") = {} \/ LiveEngines("book") \cup LiveEngines("rendition") = {}

\* C6: the recorded lastPosition of every PDF entry of the library spells a positive
\* integer, and nothing but the lastPosition of a PDF entry is handed to the PDF
\* viewer as a page number.
C6_LocatorTypeSafe ==
  /\ \A i \in 1..Len(library) :
        (LibraryEntries[i].fileType = "pdf" /\ LibraryEntries[i].lastPosition # NoPos)
          => ParseInt(LibraryEntries[i].lastPosition) > 0
  /\ \A g \in hist.pdfGot : g[1] = "pdf"

\* the elements of a sequence
Elements(q) == {q[i] : i \in 1..Len(q)}

\* C7: when a book is reopened and loadHighlights answers, the set loaded equals
\* the set that was in memory after the last highlight was created under the same
\* identifier.
C7_HighlightRoundTrip ==
  [][\A t \in Tasks :
       (tasks[t].pc = "epub_hl" /\ tasks'[t].pc # "epub_hl") =>
         \A c \in hist.created :
           c[1] = bookIdentifier => Elements(highlights') = Elements(c[2])]_vars

\* C8: any two resolutions of the highlight identifier from the same metadata gave
\* the same identifier, whatever the time of the resolution.
C8_IdentifierStable ==
  \A a, b \in hist.resolved : a[1] = b[1] => a[2] = b[2]

\* C8 witness: a document without publisher identifier was resolved at two times.
C8_Witness ==
  \E a, b \in hist.resolved :
    a[1] = b[1] /\ a[3] # b[3] /\ a[1].identifier = <<>>

\* the positions of addBookToLibrary behind its existence check
AddPcs == {"add_read", "add_load", "add_cover", "add_coversave", "add_save"}

\* C9: an addBookToLibrary call for a path that has an entry leaves the index as it
\* is (length, order, ids) and never goes on to extract metadata or insert.
C9_AddExistingUnchanged ==
  [][\A t \in Tasks :
       /\ (tasks[t].pc = "idle" /\ tasks'[t].hadEntry) => LibraryEntries' = LibraryEntries
       /\ tasks'[t].pc \in AddPcs => ~tasks'[t].hadEntry]_vars

\* C9 witness: the Add button was used for a path whose entry is not the newest one.
C9_Witness ==
  \E t \in Tasks :
    /\ tasks[t].op = "add" /\ tasks[t].hadEntry
    /\ Len(library) >= 2 /\ heap[library[1]].path # tasks[t].path

\* round(100 * p) for p given in thousandths: the nearest integer, halves upwards
Round100(pm) == CHOOSE n \in 0..100 : 10 * n - 5 <= pm /\ pm < 10 * n + 5

\* C10: a location event with locator L and fraction p sets lastPosition of the entry
\* with the current path to L and its progress to round(100 * p), and changes no
\* other field, no other entry and not the index.
C10_RecordProgress ==
  [][hist'.evt # hist.evt =>
       LET b == hist'.last IN
         /\ b = FindByPath(library, heap, currentBookPath)
         /\ heap' = [heap EXCEPT ![b] = [heap[b] EXCEPT
                        !.lastPosition = hist'.loc[1],
                        !.progress = Round100(hist'.loc[2])]]
         /\ library' = library]_vars

\* C10 witness: an event at fraction 0.42 was recorded as progress 42 in a library
\* of two entries.
C10_Witness ==
  /\ hist.loc = <<"cfi1", 420>>
  /\ hist.last # 0
  /\ heap[hist.last].progress = 42 /\ heap[hist.last].lastPosition = "cfi1"
  /\ Len(library) = 2

\* C11: in every reachable state the progress of every library entry is an integer
\* from 0 to 100, whatever fraction the engine reported.
C11_ProgressInRange ==
  \A i \in 1..Len(library) : LibraryEntries[i].progress \in 0..100

\* C12: deleting a highlight by an id that no highlight of the current set carries
\* leaves the set as it is and still sends the full set to be saved, and the
\* operation returns without error once the save has answered.
C12_DeleteAbsent ==
  [][\A t \in Tasks :
       /\ (/\ tasks[t].pc = "idle" /\ tasks'[t].pc = "hd_save"
           /\ \A i \in 1..Len(highlights) : highlights[i].id # tasks'[t].id)
          => /\ highlights' = highlights
             /\ highlightStore' = SaveHighlightsFile(highlightStore, bookIdentifier, highlights)
             /\ \E k \in 1..Len(ipc') : ipc'[k] = t
       /\ (tasks[t].pc = "hd_save" /\ tasks'[t].pc # "hd_save")
          => tasks'[t] = IdleTask /\ highlights' = highlights]_vars

\* C12 witness: a delete by an id that the one highlight of the set does not carry
\* has sent its save, the set still holding that highlight.
C12_Witness ==
  \E t \in Tasks :
    /\ tasks[t].pc = "hd_save"
    /\ Len(highlights) = 1 /\ highlights[1].id # tasks[t].id
    /\ bookIdentifier \in DOMAIN highlightStore
    /\ highlightStore[bookIdentifier] = highlights

\* the positions of a task inside loadBook and what it calls
LoadPcs == {"epub_read", "epub_ready", "epub_pause", "epub_display", "epub_ident",
            "epub_hl", "epub_settings", "pdf_read", "pdf_load", "pdf_meta",
            "add_read", "add_load", "add_cover", "add_coversave", "add_save"}

\* the document at path p is Ready in a session of rendition rend, PDF viewer pdfv,
\* engines E and file type ft: its engine is the session's and is live
ReadyFor(p, rend, pdfv, E, ft) ==
  \/ rend # 0 /\ E[rend].live /\ E[rend].doc = p /\ ft = "epub"
  \/ pdfv # 0 /\ E[pdfv].live /\ E[pdfv].doc = p /\ ft = "pdf"

\* C13: whenever a load ends with its document Ready and the library holds an entry
\* for the path with a recorded lastPosition, the replay of that position starts at
\* once, whichever way the open was requested.
C13_ReplayOnReady ==
  [][\A t \in Tasks :
       (/\ tasks[t].pc \in LoadPcs /\ tasks'[t].pc \notin LoadPcs
        /\ ReadyFor(tasks[t].path, rendition', pdfViewer', engines', currentFileType')
        /\ FindByPath(library, heap, tasks[t].path) # 0
        /\ heap[FindByPath(library, heap, tasks[t].path)].lastPosition # NoPos)
       => tasks'[t].pc \in {"resume_epub", "resume_pdf"}]_vars

\* the page number a lastPosition spells, 0 when it spells no positive integer
PageOf(v) == CASE v = "1" -> 1 [] v = "2" -> 2 [] v = "3" -> 3 [] OTHER -> 0

\* C14: when the open of a PDF entry from its library card returns with the document
\* Ready, the viewer is on page p if the entry's lastPosition spells a page p of the
\* document, and on page 1 if it spells no integer of 1 or more.
C14_PdfResumePage ==
  [][\A t \in Tasks :
       LET b == FindByPath(library, heap, currentBookPath) IN
       (/\ tasks[t].op = "library" /\ tasks[t].pc # "idle" /\ tasks'[t].pc = "idle"
        /\ ReadyFor(currentBookPath, rendition', pdfViewer', engines', "pdf")
        /\ currentFileType' = "pdf"
        /\ b # 0 /\ heap[b].fileType = "pdf" /\ heap[b].lastPosition # NoPos)
       => LET p == PageOf(heap[b].lastPosition)
              v == engines'[pdfViewer']
          IN /\ (p >= 1 /\ p <= v.pages) => v.page = p
             /\ p < 1 => v.page = 1]_vars

\* C14 witness: the open of the PDF entry with lastPosition '2' has sent the viewer of
\* the two-page document to page 2.
C14_Witness ==
  \E t \in Tasks :
    /\ tasks[t].pc = "resume_pdf" /\ tasks[t].pos = "2"
    /\ engines[tasks[t].h].page = 2 /\ engines[tasks[t].h].pages = 2
    /\ pdfViewer = tasks[t].h

\* C15: when the replay of an EPUB entry's stale lastPosition fails, no error is
\* surfaced, the rendition stays the session's live engine showing the document
\* start, and openBookFromLibrary returns normally.
C15_ReplayFailureSwallowed ==
  [][\A t \in Tasks :
       (/\ tasks[t].pc = "resume_epub" /\ tasks'[t].pc # "resume_epub"
        /\ tasks[t].pos = "stale")
       => /\ tasks'[t] = IdleTask
          /\ ~hist'.alerted
          /\ rendition' = rendition /\ book' = book /\ currentFileType' = "epub"
          /\ rendition' = tasks[t].h
          /\ engines'[rendition'].live /\ engines'[rendition'].shown = "start"]_vars

\* C15 witness: the EPUB entry with the stale position was opened from its card, the
\* load and the replay are over and the rendition shows the document start.
C15_Witness ==
  /\ Quiet
  /\ rendition # 0 /\ engines[rendition].live /\ engines[rendition].onRelocated
  /\ engines[rendition].shown = "start"
  /\ \E i \in 1..Len(library) :
       /\ LibraryEntries[i].path = currentBookPath
       /\ LibraryEntries[i].lastPosition = "stale"
       /\ LibraryEntries[i].lastOpened # NoTime

\* round(100 * page / pages), halves upwards
PdfPercent(page, pages) == (200 * page + pages) \div (2 * pages)

\* C16: every page change of the open PDF, its path having a library entry, is
\* recorded: the entry's lastPosition becomes the page number and its progress
\* round(100 * currentPage / totalPages).
C16_PdfPageRecorded ==
  [][LET b == FindByPath(library', heap', currentBookPath') IN
     (/\ pdfViewer # 0 /\ pdfViewer' = pdfViewer
      /\ engines[pdfViewer].live /\ engines'[pdfViewer].live
      /\ engines'[pdfViewer].doc = currentBookPath'
      /\ engines'[pdfViewer].page # engines[pdfViewer].page
      /\ b # 0)
     => /\ PageOf(heap'[b].lastPosition) = engines'[pdfViewer].page
        /\ heap'[b].progress = PdfPercent(engines'[pdfViewer].page, engines'[pdfViewer].pages)]_vars

\* C17: when a load ends with its document Ready, the library index holds an entry
\* for the path, also when it held none before, for EPUB and PDF alike.
C17_EntryAfterOpen ==
  [][\A t \in Tasks :
       (/\ tasks[t].pc \in LoadPcs /\ tasks'[t].pc \notin LoadPcs
        /\ ReadyFor(tasks[t].path, rendition', pdfViewer', engines', currentFileType'))
       => FindByPath(library', heap', tasks[t].path) # 0]_vars

\* C18: the engine an open request selects follows the extension of the requested
\* path, compared without regard to case: the PDF engine for 'pdf', the EPUB engine
\* for everything else.
C18_ClassifiedByExtension ==
  currentBookPath # NoPath =>
    currentFileType = (IF Extension(currentBookPath) = ExtPdf THEN "pdf" ELSE "epub")

\* s with every maximal run of non-alphanumeric characters replaced by one separator,
\* in lower case
RECURSIVE RunSlug(_)
RunSlug(s) ==
  IF s = <<>> THEN <<>>
  ELSE LET r == RunSlug(Tail(s)) IN
       IF IsAlnum(Head(s)) THEN <<ToLowerChar(Head(s))>> \o r
       ELSE IF r # <<>> /\ Head(r) = "-" THEN r
       ELSE <<"-">> \o r

\* id is s with every single non-alphanumeric character replaced by a separator, in
\* lower case
IsCharSlug(id, s) ==
  /\ Len(id) = Len(s)
  /\ \A i \in 1..Len(s) : id[i] = IF IsAlnum(s[i]) THEN ToLowerChar(s[i]) ELSE "-"

\* title-author of a document's metadata on the highlight path, 'unknown' standing
\* for a missing part
TitleAuthor(meta) ==
  OrElse(meta.title, StrUnknown) \o <<"-">> \o OrElse(meta.creator, StrUnknown)

\* C19 as stated: every identifier resolved for highlights is the publisher's when
\* there is one, and otherwise the slug with every run of non-alphanumeric characters
\* collapsed into one separator.
C19_ResolveRunSlug ==
  \A r \in hist.resolved :
    r[2] = IF r[1].identifier # <<>> THEN r[1].identifier ELSE RunSlug(TitleAuthor(r[1]))

\* C19 amended: every identifier resolved for highlights is the publisher's when
\* there is one and otherwise the slug with each single non-alphanumeric character
\* replaced, without timestamp; the id of an added entry is the publisher's for an
\* EPUB that has one and otherwise that slug of its title and author followed by a
\* separator and a timestamp.
C19_ResolveCharSlug ==
  /\ \A r \in hist.resolved :
       IF r[1].identifier # <<>> THEN r[2] = r[1].identifier
       ELSE IsCharSlug(r[2], TitleAuthor(r[1]))
  /\ \A i \in 1..Len(library) :
       LET e == LibraryEntries[i] IN
       IF e.fileType = "epub" /\ FileOf(e.path).identifier # <<>>
       THEN e.id = FileOf(e.path).identifier
       ELSE \E n \in 0..MaxClock, k \in 1..Len(e.id) :
              /\ IsCharSlug(SubSeq(e.id, 1, k), e.title \o <<"-">> \o e.author)
              /\ SubSeq(e.id, k + 1, Len(e.id)) = <<"-">> \o DecStr(n)

\* C19 witness: the document whose title holds two spaces in a row was added to the
\* library and resolved for highlights.
C19_Witness ==
  /\ \E r \in hist.resolved : r[1].identifier = <<>> /\ r[1].title = <<"A"," "," ","b">>
  /\ \E i \in 1..Len(library) : LibraryEntries[i].path = PathD

\* C20: a remove takes the entries of one id out of the index, keeping the others in
\* order, writes the index to the library store in the same step and not through
\* the debounce timer, and leaves every cover file and highlight set as it is.
C20_RemoveFrame ==
  [][Len(library') < Len(library) =>
       /\ \E i \in 1..Len(library) :
            /\ library' = SelectSeq(library, LAMBDA o : heap[o].id # heap[library[i]].id)
            /\ \A j \in 1..Len(library') : heap'[library'[j]].id # heap[library[i]].id
       /\ heap' = heap
       /\ libraryStore' = [present |-> TRUE,
                           entries |-> [j \in 1..Len(library') |-> heap'[library'[j]]]]
       /\ librarySaveTimeout' = librarySaveTimeout
       /\ coverStore' = coverStore
       /\ highlightStore' = highlightStore]_vars

\* C20 witness: an entry whose cover file exists was removed: no operation is in
\* flight, the cover is on disk, no entry of the index names it, and library.json
\* holds the index.
C20_Witness ==
  /\ Quiet
  /\ \E c \in coverStore : \A i \in 1..Len(library) : LibraryEntries[i].coverPath # c
  /\ libraryStore = [present |-> TRUE, entries |-> LibraryEntries]

\* C21: a save of the edit dialog sets the title and the author of the entry that
\* carries the edited id to the texts submitted (the default text for an empty
\* field), leaves every other field of it, every other entry and the order of the
\* index unchanged, writes the index to the library store in the same step and does
\* not touch the debounce timer.
C21_EditFrame ==
  [][\A t \in Tasks :
       (tasks[t].pc = "idle" /\ tasks'[t].pc = "edit_save") =>
         \E i \in 1..Len(library) :
           /\ LibraryEntries[i].id = editingBookId
           /\ \A j \in 1..(i - 1) : LibraryEntries[j].id # editingBookId
           /\ library' = library
           /\ heap' = [heap EXCEPT ![library[i]] =
                 [heap[library[i]] EXCEPT
                    !.title = IF tasks'[t].title = <<>> THEN StrUnknownTitle
                              ELSE tasks'[t].title,
                    !.author = IF tasks'[t].author = <<>> THEN StrUnknownAuthor
                               ELSE tasks'[t].author]]
           /\ libraryStore' = [present |-> TRUE,
                               entries |-> [j \in 1..Len(library') |-> heap'[library'[j]]]]
           /\ librarySaveTimeout' = librarySaveTimeout]_vars

\* C21 witness: the second entry of the index was edited to title 'N' while a
\* debounced save of reading progress was pending: library.json holds the new title
\* and the timer is still set.
C21_Witness ==
  \E t \in Tasks :
    /\ tasks[t].pc = "edit_save" /\ tasks[t].title = <<"N">>
    /\ Len(library) = 2
    /\ LibraryEntries[2].id = editingBookId /\ LibraryEntries[2].title = <<"N">>
    /\ libraryStore = [present |-> TRUE, entries |-> LibraryEntries]
    /\ librarySaveTimeout > 0

\* C22: the index changes only by an insert of addBookToLibrary, made for a path
\* that had no entry when the call started: one new entry is put at the head, with
\* progress 0, no lastPosition and, for an EPUB with a publisher identifier, that
\* identifier as its id, while the entries already there keep their order and their
\* fields; no other step, an open from a card included, changes the index order.
C22_InsertAtHead ==
  [][library' # library =>
       \E t \in Tasks :
         /\ tasks[t].pc \in {"add_load", "add_cover", "add_coversave"}
         /\ tasks'[t].pc = "add_save"
         /\ ~tasks[t].hadEntry
         /\ Len(library') = Len(library) + 1
         /\ \A i \in 1..Len(library) :
              library'[i + 1] = library[i] /\ heap'[library[i]] = heap[library[i]]
         /\ \A i \in 1..Len(library) : library[i] # library'[1]
         /\ LET e == heap'[library'[1]] IN
              /\ e.path = tasks[t].path
              /\ e.progress = 0
              /\ e.lastPosition = NoPos
              /\ (e.fileType = "epub" /\ FileOf(e.path).identifier # <<>>)
                   => e.id = FileOf(e.path).identifier]_vars

\* C22 witness: the EPUB with a publisher identifier was added to the stored library
\* of two entries and the PDF was opened from its card afterwards: the new entry is
\* at the head under the publisher's identifier, the two others follow in their order.
C22_Witness ==
  /\ Len(library) = 3
  /\ LibraryEntries[1].path = PathG /\ LibraryEntries[1].id = FileOf(PathG).identifier
  /\ LibraryEntries[1].progress = 0 /\ LibraryEntries[1].lastPosition = NoPos
  /\ LibraryEntries[2].path = PathX /\ LibraryEntries[2].lastOpened # NoTime
  /\ LibraryEntries[3].path = PathB

\* C23: loadLibrary never throws to the start-up code, whatever library.json is: the
\* start-up goes on; and when the file is missing, cannot be read or holds text
\* that cannot be parsed, the in-memory library is the empty sequence afterwards.
C23_LoadNeverThrows ==
  [][phase = "library" /\ phase' # "library" =>
       /\ phase' = "running"
       /\ (~libraryStore.present \/ "text" \in DOMAIN libraryStore)
            => library' = <<>>]_vars

\* C23 witness: the program started on a library.json that is no JSON and runs with
\* an empty library.
C23_Witness ==
  /\ phase = "running"
  /\ libraryStore = [present |-> TRUE, text |-> "no json"]
  /\ library = <<>>

\* C25: after the load of the settings at start-up, every key the stored document
\* defines has the stored value, every other key of the defaults has its default,
\* the keys are those of the defaults and of the stored document together; with no
\* document (file missing, unparsable, null) the settings are the defaults; the
\* start-up goes on in every case.
C25_StoredOverDefaults ==
  [][phase = "settings" /\ phase' # "settings" =>
       /\ phase' = "library"
       /\ IF settingsStore.present /\ "doc" \in DOMAIN settingsStore
          THEN LET stored == settingsStore.doc IN
               /\ DOMAIN settings' = DOMAIN Defaults \cup DOMAIN stored
               /\ \A k \in DOMAIN stored : settings'[k] = stored[k]
               /\ \A k \in DOMAIN Defaults \ DOMAIN stored : settings'[k] = Defaults[k]
          ELSE settings' = Defaults]_vars

\* C25 witness: the stored document defined the theme and a key the defaults do not
\* know: both are in effect, next to the default font size.
C25_Witness ==
  /\ phase = "library"
  /\ settingsStore = SettingsFile([theme |-> "dark", legacy |-> 1])
  /\ settings["theme"] = "dark" /\ settings["legacy"] = 1 /\ settings["fontSize"] = 18

\* the document at path p cannot be opened: it cannot be read or is of no format an
\* engine accepts
Unopenable(p) == ~FileOf(p).readable \/ FileOf(p).format \notin {"epub", "pdf"}

\* C24: when an open or an add of a document that cannot be opened returns, no
\* engine made from that document is live any more, the temporary engine of
\* addBookToLibrary included, and the session holds no handle of such an engine.
C24_FailureReleases ==
  [][\A t \in Tasks :
       (tasks[t].pc # "idle" /\ tasks'[t].pc = "idle" /\ Unopenable(tasks[t].path)) =>
         \A h \in DOMAIN engines' :
           engines'[h].doc = tasks[t].path =>
             ~engines'[h].live /\ h \notin {book', rendition', pdfViewer'}]_vars

\* C26: a write to library.json keeps every entry the file held, but for the entries
\* of an id whose removal was confirmed in that step: in particular the debounced
\* save that fires after the closing cleanup emptied the in-memory library writes no
\* empty or shortened index.
C26_NoEntryDropped ==
  [][libraryStore' # libraryStore =>
       \A i \in 1..Len(libraryStore.entries) :
         LET id == libraryStore.entries[i].id IN
         \/ \E j \in 1..Len(libraryStore'.entries) : libraryStore'.entries[j].id = id
         \/ /\ phase = "running" /\ phase' = "running"
            /\ \E k \in 1..Len(library) : heap[library[k]].id = id
            /\ library' = SelectSeq(library, LAMBDA o : heap[o].id # id)]_vars

\* C27: whenever a location event updates a library entry, every rendition that can
\* have emitted it (live, with the relocated listener) was created from the document
\* at the path of that entry.
C27_ProgressOfOwnBook ==
  [][hist'.evt # hist.evt =>
       \A h \in DOMAIN engines :
         (engines[h].kind = "rendition" /\ engines[h].live /\ engines[h].onRelocated)
           => engines[h].doc = heap[hist'.last].path]_vars

\* C28: every highlight of the set stored under an identifier was created while that
\* identifier was the current one (what is loaded from the store under an identifier
\* was stored under it before).
C28_OwnHighlightsOnly ==
  \A x \in DOMAIN highlightStore :
    \A i \in 1..Len(highlightStore[x]) : highlightStore[x][i].under = x

\* C29: a confirmed remove takes exactly one entry out of the index, the one whose
\* card was used, also when another entry at a different path carries the same id.
C29_RemovesOneEntry ==
  [][(phase = "running" /\ phase' = "running" /\ Len(library') < Len(library)) =>
       /\ Len(library') = Len(library) - 1
       /\ \E i \in 1..Len(library) :
            \A j \in 1..Len(library) :
              heap[library[j]].path # heap[library[i]].path =>
                \E k \in 1..Len(library') : library'[k] = library[j]]_vars

\* C30: a PDF viewer renders one page at a time, and whenever no render of it is
\* going on, as after a failed render, its currentPage is the page of the most
\* recent renderPage request and no request is left parked in pageNumPending.
C30_LastRequestShown ==
  \A h \in DOMAIN engines :
    (engines[h].kind = "pdf" /\ engines[h].live /\ ~engines[h].rendering) =>
      /\ engines[h].page = engines[h].asked
      /\ engines[h].pending = 0

====
